---- MODULE Spec2Model ----
(***************************************************************************)
(* Model of the beckn-onix request handler: the step pipeline of           *)
(* stdHandler.ServeHTTP, the built-in steps (sign, validateSign, addRoute, *)
(* ...), the dispatcher (route / proxy / makeAsyncRequest), the            *)
(* post-response hooks, the response encoder and the auth header codec.    *)
(*                                                                         *)
(* Go strings are sequences of one-character strings, so that indexing,    *)
(* trimming and splitting are computed as the code computes them.          *)
(***************************************************************************)
EXTENDS Integers, Sequences, FiniteSets, TLC

VARIABLES
  h,      \* the stdHandler built by NewStdHandler: steps, role, SubscriberID, publisher
  r,      \* the *http.Request being served: headers, cookies, body stream, context
  w,      \* the http.ResponseWriter: response headers, status and body written
  ctx,    \* the model.StepContext of the request
  pc,     \* where ServeHTTP is: "idle", "steps", "returned"
  idx,    \* 1-based position in h.steps of the next step to run
  hooks,  \* the post-response hooks attached to the request context
  calls,  \* history: every Run, plugin call, response write and outbound delivery
  now,    \* the wall clock, in Unix seconds
  codec,  \* the auth header codec exercised on its own: inputs, header, parse result
  enc,    \* the response encoder exercised on its own: two errors and the responses written
  payload, \* the content of the request body as the schema validator reads it
  build,  \* NewStdHandler at work: the configuration, the plugins loaded, the outcome
  sv,     \* a schemaValidator shared by goroutines: its cache, its locks, each call's position
  router, \* the routing rules being loaded: the rules, the index built so far, the outcome
  par     \* two requests served at the same time by one handler, each with its own state

vars == <<h, r, w, ctx, pc, idx, hooks, calls, now, codec, enc, payload, build, sv, router, par>>
handlerVars == <<h, r, w, ctx, pc, idx, hooks, calls, now>>
\* The components exercised apart from the handler.
sideVars == <<sv, router, par>>

\* ------------------------------------------------------------------ bounds
\* Longest subscriber id / unique key id given to generateAuthHeader.
MaxLen == 2
\* Longest text following keyId=" in a raw header given to parseHeader.
MidLen == 4
\* Longest configured step sequence.
MaxSteps == 2
\* Most plugin kinds a module configuration leaves unconfigured.
MaxUnset == 1
\* Most goroutines calling one schemaValidator at the same time.
MaxGo == 2
\* Most rules in a routing rules file.
MaxRules == 2
\* Most seconds the wall clock advances between two reads within one step.
MaxTick == 1
\* The wall clock when the request arrives.
Epoch == 1000

\* 5 * time.Minute, in seconds
SignatureWindow == 300

\* ------------------------------------------------------------ Go strings
Quote == "\""
Pipe == "|"
WhiteSpace == {" ", "\t", "\n", "\r"}
Alphabet == {"a", Pipe, Quote, " "}

RECURSIVE Strs(_)
\* All strings over Alphabet of length at most n.
Strs(n) ==
  IF n = 0 THEN {<<>>}
  ELSE LET shorter == Strs(n - 1)
       IN shorter \cup {Append(s, c) : s \in {t \in shorter : Len(t) = n - 1}, c \in Alphabet}

\* strings.Index(s, sub): 0-based index of the first occurrence, or -1.
Index(s, sub) ==
  LET hits == {i \in 0..(Len(s) - Len(sub)) : SubSeq(s, i + 1, i + Len(sub)) = sub}
  IN IF hits = {} THEN -1 ELSE CHOOSE i \in hits : \A j \in hits : i <= j

\* The Go slice s[lo:hi].
Slice(s, lo, hi) == SubSeq(s, lo + 1, hi)

RECURSIVE TrimLeft(_)
TrimLeft(s) == IF s # <<>> /\ Head(s) \in WhiteSpace THEN TrimLeft(Tail(s)) ELSE s

RECURSIVE TrimRight(_)
TrimRight(s) ==
  IF s # <<>> /\ s[Len(s)] \in WhiteSpace THEN TrimRight(SubSeq(s, 1, Len(s) - 1)) ELSE s

\* strings.TrimSpace
TrimSpace(s) == TrimRight(TrimLeft(s))

RECURSIVE Split(_, _)
\* strings.Split(s, sep) for a one-character separator: the text before the
\* first separator, then the split of the rest; a string without separator
\* (the empty one included) is one component.
Split(s, sep) ==
  LET i == Index(s, <<sep>>)
  IN IF i = -1 THEN <<s>>
     ELSE <<Slice(s, 0, i)>> \o Split(Slice(s, i + 1, Len(s)), sep)

Digit(d) == CASE d = 0 -> "0" [] d = 1 -> "1" [] d = 2 -> "2" [] d = 3 -> "3"
              [] d = 4 -> "4" [] d = 5 -> "5" [] d = 6 -> "6" [] d = 7 -> "7"
              [] d = 8 -> "8" [] d = 9 -> "9"

RECURSIVE Itoa(_)
\* fmt's %d of an int64.
Itoa(n) ==
  IF n < 0 THEN <<"-">> \o Itoa(-n)
  ELSE IF n < 10 THEN <<Digit(n)>>
  ELSE Itoa(n \div 10) \o <<Digit(n % 10)>>

\* --------------------------------------------------- auth header literals
KeyIdPrefix == <<"k", "e", "y", "I", "d", "=", Quote>>
Ed25519 == <<"e", "d", "2", "5", "5", "1", "9">>
SignatureSp == <<"S", "i", "g", "n", "a", "t", "u", "r", "e", " ">>
AlgorithmEq == <<",", "a", "l", "g", "o", "r", "i", "t", "h", "m", "=", Quote>>
CreatedEq == <<",", "c", "r", "e", "a", "t", "e", "d", "=", Quote>>
ExpiresEq == <<",", "e", "x", "p", "i", "r", "e", "s", "=", Quote>>
HeadersEq == <<",", "h", "e", "a", "d", "e", "r", "s", "=", Quote>>
SignedHeaders == <<"(", "c", "r", "e", "a", "t", "e", "d", ")", " ",
                   "(", "e", "x", "p", "i", "r", "e", "s", ")", " ",
                   "d", "i", "g", "e", "s", "t">>
SignatureEq == <<",", "s", "i", "g", "n", "a", "t", "u", "r", "e", "=", Quote>>
RealmEq == <<"r", "e", "a", "l", "m", "=", Quote>>

\* ------------------------------------------------------ auth header codec
\* The keyId="..." parameter emitted by the buggy variant: subscriber id and
\* key id in the wrong order.
GenerateAuthHeaderSwapped(subID, keyID, createdAt, validTill, signature) ==
  SignatureSp \o KeyIdPrefix \o keyID \o <<Pipe>> \o subID \o <<Pipe>> \o Ed25519 \o <<Quote>>
    \o AlgorithmEq \o Ed25519 \o <<Quote>>
    \o CreatedEq \o Itoa(createdAt) \o <<Quote>>
    \o ExpiresEq \o Itoa(validTill) \o <<Quote>>
    \o HeadersEq \o SignedHeaders \o <<Quote>>
    \o SignatureEq \o signature \o <<Quote>>

\* signStep.generateAuthHeader
GenerateAuthHeader(subID, keyID, createdAt, validTill, signature) ==
  SignatureSp \o KeyIdPrefix \o subID \o <<Pipe>> \o keyID \o <<Pipe>> \o Ed25519 \o <<Quote>>
    \o AlgorithmEq \o Ed25519 \o <<Quote>>
    \o CreatedEq \o Itoa(createdAt) \o <<Quote>>
    \o ExpiresEq \o Itoa(validTill) \o <<Quote>>
    \o HeadersEq \o SignedHeaders \o <<Quote>>
    \o SignatureEq \o signature \o <<Quote>>

\* parseHeader, first half: the trimmed text between keyId=" and the next
\* quote, or the empty string when either is missing.
KeyIDPart(header) ==
  LET startIndex == Index(header, KeyIdPrefix)
  IN IF startIndex = -1 THEN <<>>
     ELSE LET start == startIndex + Len(KeyIdPrefix)
              endIndex == Index(Slice(header, start, Len(header)), <<Quote>>)
          IN IF endIndex = -1 THEN <<>>
             ELSE TrimSpace(Slice(header, start, start + endIndex))

\* A parse result is the pair (pointer, error) of the code: val holds the
\* parsed authHeader or is empty (nil), err names the error or is "".
ParseErr(e) == [err |-> e, val |-> <<>>]
ParseOK(v) == [err |-> "", val |-> <<v>>]

\* The buggy variant: at least three components are accepted.
ParseKeyIDLoose(keyIDPart) ==
  IF keyIDPart = <<>> THEN ParseErr("keyId parameter not found")
  ELSE LET keyIDComponents == Split(keyIDPart, Pipe)
       IN IF Len(keyIDComponents) < 3 THEN ParseErr("keyId parameter has incorrect format")
          ELSE ParseOK([SubscriberID |-> TrimSpace(keyIDComponents[1]),
                        UniqueID |-> TrimSpace(keyIDComponents[2]),
                        Algorithm |-> TrimSpace(keyIDComponents[3])])

\* parseHeader, second half: the arity check and the authHeader built.
ParseKeyID(keyIDPart) ==
  IF keyIDPart = <<>> THEN ParseErr("keyId parameter not found")
  ELSE LET keyIDComponents == Split(keyIDPart, Pipe)
       IN IF Len(keyIDComponents) # 3 THEN ParseErr("keyId parameter has incorrect format")
          ELSE ParseOK([SubscriberID |-> TrimSpace(keyIDComponents[1]),
                        UniqueID |-> TrimSpace(keyIDComponents[2]),
                        Algorithm |-> TrimSpace(keyIDComponents[3])])

\* parseHeader
ParseHeader(header) == ParseKeyID(KeyIDPart(header))

\* ------------------------------------------------------------ error values
\* A Go error is its chain, outermost first; nil is the empty chain. An entry
\* has a kind ("plain" for an untyped error) and its own message; a
\* WorkbenchErr also has the behavior and the code (a string) it carries, a
\* SchemaValidationErr the failing paths it lists.
NoErr == <<>>
ErrEntry(kind) == [kind |-> kind, behavior |-> "", code |-> <<>>, msg |-> "", paths |-> <<>>]
PlainErr == <<ErrEntry("plain")>>
\* fmt.Errorf(msg) without a cause
Errorf(msg) == <<[ErrEntry("plain") EXCEPT !.msg = msg]>>
\* fmt.Errorf("...: %w", e)
Wrap(e) == <<ErrEntry("plain")>> \o e
\* A typed error built around a cause: the typed kinds wrap with cause.
WrapKind(kind, e) == <<ErrEntry(kind)>> \o e
\* model.NewBadReqErr / model.NewSignValidationErr / NotFound / SchemaValidation
NewBadReqErr == <<ErrEntry("BadReq")>>
NewSignValidationErr == <<ErrEntry("SignValidation")>>
NotFoundErr == <<ErrEntry("NotFound")>>
SchemaValidationErr == <<ErrEntry("SchemaValidation")>>
WorkbenchErr(behavior, code) ==
  <<[ErrEntry("Workbench") EXCEPT !.behavior = behavior, !.code = code]>>
\* &model.SchemaValidationErr{Errors: schemaErrors}
NewSchemaValidationErr(paths) == <<[ErrEntry("SchemaValidation") EXCEPT !.paths = paths]>>

\* BecknError() of a typed error: its Beckn code and its message, which for a
\* SchemaValidationErr lists one entry per failing path.
BecknError(e) ==
  [Code |-> IF e.kind = "Workbench" THEN e.code ELSE <<e.kind>>,
   Message |-> IF e.kind = "SchemaValidation" THEN e.paths
               ELSE IF e.msg = "" THEN <<>> ELSE <<e.msg>>]

\* errors.As(err, &target) for a target of the given kind
ErrorsAs(err, kind) == \E i \in 1..Len(err) : err[i].kind = kind
\* the entry errors.As stores in the target: the outermost of that kind
AsTarget(err, kind) ==
  err[CHOOSE i \in 1..Len(err) : err[i].kind = kind /\ \A j \in 1..(i - 1) : err[j].kind # kind]

\* ------------------------------------------------------- response encoder
\* A response body: the ack status, and for a NACK the error code and message
\* (resp.Error) and the message put at resp.Message.Error.
NoBody == [kind |-> "", code |-> <<>>, message |-> <<>>, msgError |-> ""]
AckBody == [NoBody EXCEPT !.kind = "ACK"]
InternalServerErrorMsg == "INTERNAL_SERVER_ERROR"
\* The response nack marshals for the model.Error e.
NackBody(e) ==
  [kind |-> "NACK", code |-> e.Code, message |-> e.Message,
   msgError |-> IF e.Code = <<"5", "0", "0">> THEN InternalServerErrorMsg ELSE ""]
JSON == "application/json"

NewResponseWriter ==
  [Header |-> [ContentType |-> "", UnaAuthorizedHeaderGateway |-> <<>>], status |-> 0, body |-> NoBody,
   writes |-> 0, panicked |-> FALSE]

\* The buggy variant: the Content-Type header is not set.
WriteResponseNoType(wr, status, body) ==
  IF status < 100 \/ status > 999
  THEN [wr EXCEPT !.panicked = TRUE]
  ELSE [wr EXCEPT !.status = status, !.body = body, !.writes = @ + 1]

\* w.Header().Set("Content-Type", ...); w.WriteHeader(status); w.Write(data).
\* WriteHeader panics on a status that is not a three-digit code.
WriteResponse(wr, status, body) ==
  IF status < 100 \/ status > 999
  THEN [wr EXCEPT !.Header.ContentType = JSON, !.panicked = TRUE]
  ELSE [wr EXCEPT !.Header.ContentType = JSON, !.status = status, !.body = body, !.writes = @ + 1]

\* SendAck
SendAck(wr) == WriteResponse(wr, 200, AckBody)

\* nack
Nack(wr, e, status) == WriteResponse(wr, status, NackBody(e))

\* internalServerError: the code is the status text, the message carries the
\* MessageID of the context and nothing of the error.
InternalServerError(msgID) ==
  [Code |-> <<"Internal Server Error">>,
   Message |-> <<"Internal server error, MessageID: ", msgID>>]

\* strconv.Atoi for a string of decimal digits; 0 (with an error the caller
\* drops) for anything else.
DigitVal(c) == CASE c = "0" -> 0 [] c = "1" -> 1 [] c = "2" -> 2 [] c = "3" -> 3 [] c = "4" -> 4
                 [] c = "5" -> 5 [] c = "6" -> 6 [] c = "7" -> 7 [] c = "8" -> 8 [] c = "9" -> 9
                 [] OTHER -> -1
RECURSIVE AtoiDigits(_)
AtoiDigits(s) == IF s = <<>> THEN 0 ELSE 10 * AtoiDigits(SubSeq(s, 1, Len(s) - 1)) + DigitVal(s[Len(s)])
Atoi(s) == IF s = <<>> \/ \E i \in 1..Len(s) : DigitVal(s[i]) < 0 THEN 0 ELSE AtoiDigits(s)

\* The buggy variant: the cases for 400 and 404 are exchanged.
SendNackSwapped(msgID, wr, err) ==
  IF ErrorsAs(err, "Workbench") THEN
    LET e == AsTarget(err, "Workbench")
    IN IF e.behavior = "NACK" THEN Nack(wr, BecknError(e), 200)
       ELSE IF e.behavior = "HTTP" THEN Nack(wr, BecknError(e), Atoi(e.code))
       ELSE wr
  ELSE IF ErrorsAs(err, "SchemaValidation") THEN Nack(wr, BecknError(AsTarget(err, "SchemaValidation")), 200)
  ELSE IF ErrorsAs(err, "SignValidation") THEN Nack(wr, BecknError(AsTarget(err, "SignValidation")), 401)
  ELSE IF ErrorsAs(err, "BadReq") THEN Nack(wr, BecknError(AsTarget(err, "BadReq")), 404)
  ELSE IF ErrorsAs(err, "NotFound") THEN Nack(wr, BecknError(AsTarget(err, "NotFound")), 400)
  ELSE Nack(wr, InternalServerError(msgID), 500)

\* The buggy variant: the 500 response carries the text of the error.
SendNackLeaky(msgID, wr, err) ==
  IF \E i \in 1..Len(err) : err[i].kind # "plain"
  THEN Nack(wr, BecknError(err[CHOOSE i \in 1..Len(err) : err[i].kind # "plain"]), 400)
  ELSE Nack(wr, [Code |-> <<"Internal Server Error">>, Message |-> <<err[1].msg, msgID>>], 500)

\* SendNack: the first case of the switch whose type is in the chain decides;
\* a WorkbenchErr whose behavior is neither NACK nor HTTP writes nothing.
SendNack(msgID, wr, err) ==
  IF ErrorsAs(err, "Workbench") THEN
    LET e == AsTarget(err, "Workbench")
    IN IF e.behavior = "NACK" THEN Nack(wr, BecknError(e), 200)
       ELSE IF e.behavior = "HTTP" THEN Nack(wr, BecknError(e), Atoi(e.code))
       ELSE wr
  ELSE IF ErrorsAs(err, "SchemaValidation") THEN Nack(wr, BecknError(AsTarget(err, "SchemaValidation")), 200)
  ELSE IF ErrorsAs(err, "SignValidation") THEN Nack(wr, BecknError(AsTarget(err, "SignValidation")), 401)
  ELSE IF ErrorsAs(err, "BadReq") THEN Nack(wr, BecknError(AsTarget(err, "BadReq")), 400)
  ELSE IF ErrorsAs(err, "NotFound") THEN Nack(wr, BecknError(AsTarget(err, "NotFound")), 404)
  ELSE Nack(wr, InternalServerError(msgID), 500)

\* parseJSONOrDefault: the values json.Unmarshal accepts
IsJSON(str) == str \in {"{}"}

\* The buggy variant: a string that is not JSON is sent as if it were.
SendBodyRaw(wr, str) == WriteResponse(wr, 200, [NoBody EXCEPT !.kind = "json", !.message = <<str>>])

\* SendBody for a string body: the parsed JSON value, or the string as the
\* "message" member of an object.
SendBody(wr, str) ==
  WriteResponse(wr, 200,
    [NoBody EXCEPT !.kind = IF IsJSON(str) THEN "json" ELSE "message", !.message = <<str>>])

\* ------------------------------------------------- handler, request, context
RECURSIVE SeqsUpTo(_, _)
\* All sequences over S of length at most n.
SeqsUpTo(S, n) ==
  IF n = 0 THEN {<<>>}
  ELSE LET shorter == SeqsUpTo(S, n - 1)
       IN shorter \cup {Append(q, x) : q \in {t \in shorter : Len(t) = n - 1}, x \in S}

\* The steps a module is built with here: three built-ins and a custom
\* (plugin) step.
StepNames == {"validateSign", "addRoute", "sign", "custom"}
Roles == {"bap", "gateway"}
Bodies == {"b0", "b1"}

\* The stdHandler fields ServeHTTP reads; publisher is whether h.publisher is
\* non-nil. A module lists each of its steps once.
Handlers ==
  [steps : {q \in SeqsUpTo(StepNames, MaxSteps) : \A i, j \in 1..Len(q) : q[i] = q[j] => i = j},
   role : Roles,
   SubscriberID : {<<>>, <<"a">>}, publisher : BOOLEAN]

\* (cookie, err) of r.Cookie(name): present is err == nil.
NoCookie == [present |-> FALSE, Value |-> ""]
Cookie(v) == [present |-> TRUE, Value |-> v]
\* The subscriber_id cookie, whose value is used as a subscriber id.
NoSubCookie == [present |-> FALSE, Value |-> <<>>]
SubCookie(v) == [present |-> TRUE, Value |-> v]

\* What the KeyManager and the Signer hand to the sign step.
KeySet == [UniqueKeyID |-> <<"k", "1">>, SigningPrivate |-> "priv"]
Sig == <<"s", "g">>

\* Authorization header values a client sends: none, one whose keyId has two
\* components, and one built like a peer's sign step builds it.
MalformedAuth == SignatureSp \o KeyIdPrefix \o <<"a", Pipe, "k", "1", Quote>>
PeerAuth == GenerateAuthHeader(<<"a">>, KeySet.UniqueKeyID, Epoch, Epoch + SignatureWindow, Sig)
AuthHeaders == {<<>>, MalformedAuth, PeerAuth}

\* The request as it reaches ServeHTTP; a client may send the internal header
\* names itself. Body is the unread body stream (<<>>
\* once drained); hooks is whether the post-response middleware attached its
\* hook list to the request context; done is whether the request context
\* has been cancelled.
Requests ==
  [Header : [XModuleName : {"", "client"}, XRole : {"", "client"}, Authorization : AuthHeaders,
             GatewayAuthorization : {<<>>}, XForwardedHost : {""}],
   Cookies : [header_validation : {NoCookie, Cookie("false")},
              custom_response_body : {NoCookie, Cookie("{}"), Cookie("hi")},
              subscriber_id : {NoSubCookie}, protocol_validation : {NoCookie}],
   Method : {"POST"}, URL : {[Path |-> "/s", RawQuery |-> ""]}, Body : {<<"b0">>},
   Host : {"adapter"}, MsgID : {"m1"}, hooks : BOOLEAN, done : {FALSE}]

\* The requests served by a module built with the ONDC steps: with or without
\* a query string, a subscriber_id cookie (one with a value, one empty) and a
\* protocol_validation cookie.
OndcRequests ==
  [Header : [XModuleName : {""}, XRole : {""}, Authorization : {<<>>},
             GatewayAuthorization : {<<>>}, XForwardedHost : {""}],
   Cookies : [header_validation : {NoCookie}, custom_response_body : {NoCookie},
              subscriber_id : {NoSubCookie, SubCookie(<<"c">>), SubCookie(<<>>)},
              protocol_validation : {NoCookie, Cookie("false"), Cookie("true")}],
   Method : {"POST"}, URL : [Path : {"/s"}, RawQuery : {"", "q=1"}], Body : {<<"b0">>},
   Host : {"adapter"}, MsgID : {"m1"}, hooks : {TRUE}, done : {FALSE}]

NoRequest ==
  [Header |-> [XModuleName |-> "", XRole |-> "", Authorization |-> <<>>,
               GatewayAuthorization |-> <<>>, XForwardedHost |-> ""],
   Cookies |-> [header_validation |-> NoCookie, custom_response_body |-> NoCookie,
                subscriber_id |-> NoSubCookie, protocol_validation |-> NoCookie],
   Method |-> "", URL |-> [Path |-> "", RawQuery |-> ""], Body |-> <<>>, Host |-> "", MsgID |-> "",
   hooks |-> FALSE, done |-> FALSE]

\* model.Route as addRoute copies it; the StepContext holds <<>> for nil.
TargetTypes == {"url", "publisher", "msgq", "unknown"}
\* The *url.URL of a route target.
TargetURL == [Host |-> "backend", Path |-> "/t", RawQuery |-> ""]
Routes == [TargetType : TargetTypes, PublisherID : {"topic"}, URL : {TargetURL}, ActAsProxy : BOOLEAN]

\* model.StepContext. Context names the context.Context it embeds; Request
\* and RespHeader are references to r and to w.Header and are read there.
NoCtx == [Context |-> "", Body |-> "", Role |-> "", SubID |-> <<>>, Route |-> <<>>]

\* One entry of the history: the operation, the step position it happened
\* at (0 outside the steps), its arguments and whether it succeeded.
Call(op, i, args, ok) == [op |-> op, i |-> i, args |-> args, ok |-> ok]

\* ------------------------------------------------------------------ steps
\* "Signature realm=\"%s\",headers=\"(created) (expires) digest\""
UnauthHeader(subID) ==
  SignatureSp \o RealmEq \o subID \o <<Quote>> \o HeadersEq \o SignedHeaders \o <<Quote>>

\* validateSignStep.validate, with the errors the KeyManager and the
\* SignValidator answer with (NoErr: success).
Validate(c, value, i, kmErr, valErr) ==
  LET headerVals == ParseHeader(value)
  IN IF headerVals.err # "" THEN [err |-> PlainErr, calls |-> <<>>]
     ELSE LET hv == headerVals.val[1]
              lookup == Call("LookupNPKeys", i, <<hv.SubscriberID, hv.UniqueID>>, kmErr = NoErr)
              check == Call("Validate", i, <<c.Body, value, "pub">>, valErr = NoErr)
          IN IF kmErr # NoErr THEN [err |-> Wrap(kmErr), calls |-> <<lookup>>]
             ELSE IF valErr # NoErr THEN [err |-> Wrap(valErr), calls |-> <<lookup, check>>]
             ELSE [err |-> NoErr, calls |-> <<lookup, check>>]

\* The buggy variant: the header_validation cookie is not consulted.
ValidateHeadersNoCookie(c, req, wr, i, kmErr, valErr) ==
  LET headerValue == req.Header.Authorization
      v == Validate(c, headerValue, i, kmErr, valErr)
  IN IF Len(headerValue) # 0 /\ v.err # NoErr
     THEN [err |-> NewSignValidationErr,
           w |-> [wr EXCEPT !.Header.UnaAuthorizedHeaderGateway = UnauthHeader(c.SubID)], calls |-> v.calls]
     ELSE [err |-> NoErr, w |-> wr,
           calls |-> IF Len(headerValue) # 0 THEN v.calls ELSE <<>>]

\* The buggy variant: the challenge header is not set on failure.
ValidateHeadersNoRespHeader(c, req, wr, i, kmErr, valErr) ==
  LET cookie == req.Cookies.header_validation
      headerValCookie == IF cookie.present THEN cookie.Value ELSE "true"
      headerValue == req.Header.Authorization
      v == Validate(c, headerValue, i, kmErr, valErr)
  IN IF headerValCookie = "false" THEN [err |-> NoErr, w |-> wr, calls |-> <<>>]
     ELSE IF Len(headerValue) # 0 /\ v.err # NoErr
     THEN [err |-> NewSignValidationErr, w |-> wr, calls |-> v.calls]
     ELSE [err |-> NoErr, w |-> wr,
           calls |-> IF Len(headerValue) # 0 THEN v.calls ELSE <<>>]

\* validateSignStep.validateHeaders. The response header set on failure is
\* model.UnaAuthorizedHeaderGateway.
ValidateHeaders(c, req, wr, i, kmErr, valErr) ==
  LET cookie == req.Cookies.header_validation
      headerValCookie == IF cookie.present THEN cookie.Value ELSE "true"
      headerValue == req.Header.Authorization
      v == Validate(c, headerValue, i, kmErr, valErr)
  IN IF headerValCookie = "false" THEN [err |-> NoErr, w |-> wr, calls |-> <<>>]
     ELSE IF Len(headerValue) # 0 /\ v.err # NoErr
     THEN [err |-> NewSignValidationErr,
           w |-> [wr EXCEPT !.Header.UnaAuthorizedHeaderGateway = UnauthHeader(c.SubID)], calls |-> v.calls]
     ELSE [err |-> NoErr, w |-> wr,
           calls |-> IF Len(headerValue) # 0 THEN v.calls ELSE <<>>]

\* The buggy variant: the subscriber-class header is set whatever the role.
SignRunAnyRole(c, req, i, t1, t2, kmErr, signErr) ==
  IF Len(c.SubID) = 0 THEN [err |-> NewBadReqErr, r |-> req, calls |-> <<>>]
  ELSE LET keyset == Call("Keyset", i, <<c.SubID>>, kmErr = NoErr)
           sign == Call("Sign", i, <<c.Body, KeySet.SigningPrivate, t1, t2 + SignatureWindow>>, signErr = NoErr)
           authHeader == GenerateAuthHeader(c.SubID, KeySet.UniqueKeyID, t1, t2 + SignatureWindow, Sig)
           set == Call("Header.Set", i, <<"Authorization", authHeader, t1, t2 + SignatureWindow>>, TRUE)
       IN IF kmErr # NoErr THEN [err |-> Wrap(kmErr), r |-> req, calls |-> <<keyset>>]
          ELSE IF signErr # NoErr THEN [err |-> Wrap(signErr), r |-> req, calls |-> <<keyset, sign>>]
          ELSE [err |-> NoErr, r |-> [req EXCEPT !.Header.Authorization = authHeader],
                calls |-> <<keyset, sign, set>>]

\* signStep.Run. t1 and t2 are what the two calls of time.Now().Unix() read.
SignRun(c, req, i, t1, t2, kmErr, signErr) ==
  IF Len(c.SubID) = 0 THEN [err |-> NewBadReqErr, r |-> req, calls |-> <<>>]
  ELSE LET keyset == Call("Keyset", i, <<c.SubID>>, kmErr = NoErr)
           createdAt == t1
           validTill == t2 + SignatureWindow
           sign == Call("Sign", i, <<c.Body, KeySet.SigningPrivate, createdAt, validTill>>, signErr = NoErr)
           authHeader == GenerateAuthHeader(c.SubID, KeySet.UniqueKeyID, createdAt, validTill, Sig)
           header == IF c.Role = "gateway" THEN "GatewayAuthorization" ELSE "Authorization"
           set == Call("Header.Set", i, <<header, authHeader, createdAt, validTill>>, TRUE)
       IN IF kmErr # NoErr THEN [err |-> Wrap(kmErr), r |-> req, calls |-> <<keyset>>]
          ELSE IF signErr # NoErr THEN [err |-> Wrap(signErr), r |-> req, calls |-> <<keyset, sign>>]
          ELSE [err |-> NoErr, r |-> [req EXCEPT !.Header[header] = authHeader],
                calls |-> <<keyset, sign, set>>]

\* addRouteStep.Run, with what the Router answers: an error or a route.
AddRouteRun(c, i, routeErr, route) ==
  LET call == Call("Route", i, <<c.Body>>, routeErr = NoErr)
  IN IF routeErr # NoErr THEN [err |-> Wrap(routeErr), ctx |-> c, calls |-> <<call>>]
     ELSE [err |-> NoErr,
           ctx |-> [c EXCEPT !.Route = <<[TargetType |-> route.TargetType,
                                          PublisherID |-> route.PublisherID,
                                          URL |-> route.URL,
                                          ActAsProxy |-> route.ActAsProxy]>>],
           calls |-> <<call>>]

\* The buggy variant: the protocol_validation cookie is not consulted.
ValidateOndcRunNoCookie(c, req, i, ondcErr) ==
  [err |-> IF ondcErr # NoErr THEN Wrap(ondcErr) ELSE NoErr,
   calls |-> <<Call("ValidatePayload", i, <<req.URL, c.Body>>, ondcErr = NoErr)>>]

\* validateOndcStep.Run, with what ValidatePayload answers.
ValidateOndcRun(c, req, i, ondcErr) ==
  LET cookie == req.Cookies.protocol_validation
      skipCookie == IF cookie.present THEN cookie.Value ELSE "true"
      call == Call("ValidatePayload", i, <<req.URL, c.Body>>, ondcErr = NoErr)
  IN IF skipCookie = "false" THEN [err |-> NoErr, calls |-> <<>>]
     ELSE IF ondcErr # NoErr THEN [err |-> Wrap(ondcErr), calls |-> <<call>>]
     ELSE [err |-> NoErr, calls |-> <<call>>]

\* validateOndcCallSaveStep.Run, with what SaveValidationData answers.
ValidateOndcCallSaveRun(c, req, i, saveErr) ==
  LET call == Call("SaveValidationData", i, <<req.URL, c.Body>>, saveErr = NoErr)
  IN [err |-> IF saveErr # NoErr THEN Wrap(saveErr) ELSE NoErr, calls |-> <<call>>]

\* The buggy variant: the subscriber_id cookie is not copied.
WorkbenchReceiveRunNoCookie(c, req, i, wbErr) ==
  [err |-> IF wbErr # NoErr THEN Wrap(wbErr) ELSE NoErr, ctx |-> c,
   calls |-> <<Call("WorkbenchReceiver", i, <<c.Body>>, wbErr = NoErr)>>]

\* workbenchReceiveStep.Run, with what WorkbenchReceiver answers: after a
\* successful call the subscriber_id cookie, when there is one, replaces
\* ctx.SubID.
WorkbenchReceiveRun(c, req, i, wbErr) ==
  LET call == Call("WorkbenchReceiver", i, <<c.Body>>, wbErr = NoErr)
      subscriberIDCookie == req.Cookies.subscriber_id
  IN IF wbErr # NoErr THEN [err |-> Wrap(wbErr), ctx |-> c, calls |-> <<call>>]
     ELSE [err |-> NoErr,
           ctx |-> IF subscriberIDCookie.present THEN [c EXCEPT !.SubID = subscriberIDCookie.Value] ELSE c,
           calls |-> <<call>>]

\* -------------------------------------------------------- schema validation
\* strings.ToLower, on the letters used here
ToLower(str) == [i \in 1..Len(str) |-> IF str[i] = "R" THEN "r" ELSE str[i]]
\* strings.ReplaceAll(str, old, new) for a one-character old
ReplaceAll(str, old, new) == [i \in 1..Len(str) |-> IF str[i] = old THEN new ELSE str[i]]
\* strings.Join(elems, sep)
RECURSIVE Join(_, _)
Join(elems, sep) ==
  IF elems = <<>> THEN <<>>
  ELSE IF Len(elems) = 1 THEN <<elems[1]>>
  ELSE <<elems[1], sep>> \o Join(Tail(elems), sep)

\* path.Base(url.String()) of the request
Endpoint == <<"s">>
\* v.schemaFiles: the keys indexed by initialise
SchemaFiles == {<<"r", "_", "1", "_", "v", "1", "_", "s">>}

\* getCompiledSchema: the key must be indexed, and the file must compile.
GetCompiledSchema(schemaKey, compiles) ==
  IF schemaKey \notin SchemaFiles THEN Wrap(PlainErr)
  ELSE IF ~compiles THEN Wrap(PlainErr)
  ELSE NoErr

\* The buggy variant: a rejected payload is reported as an untyped error.
SchemaValidateUntyped(p) ==
  IF ~p.json \/ p.Domain = <<>> \/ (p.Version = <<>> /\ p.CoreVersion = <<>>) THEN NewBadReqErr
  ELSE IF GetCompiledSchema(ReplaceAll(ToLower(p.Domain), ":", "_") \o <<"_", "v">>
                              \o (IF p.Version = <<>> THEN p.CoreVersion ELSE p.Version)
                              \o <<"_">> \o Endpoint, p.outcome.kind # "nocompile") # NoErr
       THEN NewBadReqErr
  ELSE IF p.outcome.kind = "valid" THEN NoErr
  ELSE PlainErr

\* schemaValidator.Validate. p is the body as it parses: whether it is JSON,
\* its context fields, and what the compiled schema says of it (valid, a
\* ValidationError with its causes, or another error).
SchemaValidate(p) ==
  IF ~p.json THEN NewBadReqErr
  ELSE IF p.Domain = <<>> THEN NewBadReqErr
  ELSE IF p.Version = <<>> /\ p.CoreVersion = <<>> THEN NewBadReqErr
  ELSE LET version == <<"v">> \o (IF p.Version = <<>> THEN p.CoreVersion ELSE p.Version)
           domain == ReplaceAll(ToLower(p.Domain), ":", "_")
           schemaFileName == domain \o <<"_">> \o version \o <<"_">> \o Endpoint
       IN IF GetCompiledSchema(schemaFileName, p.outcome.kind # "nocompile") # NoErr THEN NewBadReqErr
          ELSE IF p.outcome.kind = "valid" THEN NoErr
          ELSE IF p.outcome.kind = "invalid"
            THEN NewSchemaValidationErr([k \in 1..Len(p.outcome.causes) |->
                                           Join(p.outcome.causes[k], ".")])
          ELSE PlainErr

\* validateSchemaStep.Run: the validator's error is wrapped with %w.
ValidateSchemaRun(p, i) ==
  LET err == SchemaValidate(p)
  IN [err |-> IF err # NoErr THEN Wrap(err) ELSE NoErr,
      calls |-> <<Call("SchemaValidator.Validate", i, <<p>>, err = NoErr)>>]

\* ------------------------------------------------------------- dispatcher
\* The buggy variant: the new hook is put in front of the list.
RegisterPostResponseHookFront(req, hk, fn) == IF ~req.hooks THEN hk ELSE <<fn>> \o hk

\* The buggy variant: the hook is kept whether or not a list was attached.
RegisterPostResponseHookAlways(req, hk, fn) == Append(hk, fn)

\* RegisterPostResponseHook: the hook list of the request context, with fn
\* appended when the middleware attached a list.
RegisterPostResponseHook(req, hk, fn) == IF ~req.hooks THEN hk ELSE Append(hk, fn)

\* The StepContext used as a context.Context: the context it embeds, and
\* whether that context is cancelled when the call is made.
AsContext(c, req) == [of |-> c.Context, done |-> c.Context = "r.Context()" /\ req.done]

\* makeAsyncRequest: the POST handed to httpClient.Do, built with
\* http.NewRequestWithContext(ctx, ...).
MakeAsyncRequest(cx, c) ==
  [Ctx |-> cx, Method |-> "POST", URL |-> c.Route[1].URL, Body |-> c.Body,
   Header |-> [ContentType |-> JSON, XForwardedHost |-> c.Route[1].URL.Host]]

\* proxy: the request the ReverseProxy sends upstream after the director ran
\* (req.URL = target; req.Host = target.Host).
Proxy(c, req) ==
  [Method |-> req.Method, URL |-> c.Route[1].URL, Host |-> c.Route[1].URL.Host,
   Header |-> [req.Header EXCEPT !.XForwardedHost = req.Host], Body |-> req.Body]

\* The case "publisher" of both switches over ctx.Route.TargetType.
IsPublisherType(targetType) == targetType = "publisher"

\* The buggy variant: SendAck is called after SendBody as well.
RouteAsyncTwice(c, req, wr, hk) ==
  LET cookie == req.Cookies.custom_response_body
  IN [w |-> IF cookie.present THEN SendAck(SendBody(wr, cookie.Value)) ELSE SendAck(wr),
      hooks |-> RegisterPostResponseHook(req, hk, "routeHook"),
      calls |-> (IF cookie.present THEN <<Call("SendBody", 0, <<>>, TRUE)>> ELSE <<>>)
                \o <<Call("SendAck", 0, <<>>, TRUE),
                     Call("RegisterPostResponseHook", 0, <<"routeHook">>, req.hooks)>>]

\* route, the branch ActAsProxy = false
RouteAsync(c, req, wr, hk) ==
  LET cookie == req.Cookies.custom_response_body
  IN [w |-> IF cookie.present THEN SendBody(wr, cookie.Value) ELSE SendAck(wr),
      hooks |-> RegisterPostResponseHook(req, hk, "routeHook"),
      calls |-> <<Call(IF cookie.present THEN "SendBody" ELSE "SendAck", 0, <<>>, TRUE),
                  Call("RegisterPostResponseHook", 0, <<"routeHook">>, req.hooks)>>]

\* route, the branch ActAsProxy = true. pb is whether a Publisher is
\* configured, pubErr what Publish answers, upstream the status the upstream
\* server (or the ReverseProxy's error handler) answers with.
RouteProxy(c, req, wr, hk, pb, pubErr, upstream) ==
  LET rt == c.Route[1]
      nack(e) == Call("SendNack", 0, <<e>>, TRUE)
  IN IF rt.TargetType = "url" THEN
       [w |-> [wr EXCEPT !.status = upstream, !.body = [NoBody EXCEPT !.kind = "upstream"],
                         !.writes = @ + 1],
        hooks |-> hk,
        calls |-> <<Call("proxy", 0, <<Proxy(c, req)>>, upstream = 200)>>]
     ELSE IF IsPublisherType(rt.TargetType) THEN
       IF ~pb THEN [w |-> SendNack(req.MsgID, wr, PlainErr), hooks |-> hk, calls |-> <<nack(PlainErr)>>]
       ELSE IF pubErr # NoErr THEN
         [w |-> SendNack(req.MsgID, wr, pubErr), hooks |-> hk,
          calls |-> <<Call("Publish", 0, <<rt.PublisherID, c.Body, AsContext(c, req)>>, FALSE), nack(pubErr)>>]
       ELSE
         [w |-> SendAck(wr), hooks |-> hk,
          calls |-> <<Call("Publish", 0, <<rt.PublisherID, c.Body, AsContext(c, req)>>, TRUE),
                      Call("SendAck", 0, <<>>, TRUE)>>]
     ELSE [w |-> SendNack(req.MsgID, wr, PlainErr), hooks |-> hk, calls |-> <<nack(PlainErr)>>]

\* route
Route(c, req, wr, hk, pb, pubErr, upstream) ==
  IF c.Route[1].ActAsProxy THEN RouteProxy(c, req, wr, hk, pb, pubErr, upstream)
  ELSE RouteAsync(c, req, wr, hk)

\* The buggy variant: a failed delivery is surfaced as a NACK on the response.
RouteHookSurfacing(c, req, wr, pb, postOK, pubErr) ==
  LET rt == c.Route[1]
      failed == [w |-> SendNack(req.MsgID, wr, PlainErr), calls |-> <<>>]
  IN IF rt.TargetType = "url"
     THEN [w |-> IF postOK THEN wr ELSE failed.w,
           calls |-> <<Call("httpClient.Do", 0, <<MakeAsyncRequest(AsContext(c, req), c)>>,
                           postOK /\ ~AsContext(c, req).done)>>]
     ELSE IF IsPublisherType(rt.TargetType) THEN
       IF ~pb THEN failed
       ELSE [w |-> IF pubErr = NoErr THEN wr ELSE failed.w,
             calls |-> <<Call("Publish", 0, <<rt.PublisherID, c.Body, AsContext(c, req)>>, pubErr = NoErr)>>]
     ELSE [w |-> wr, calls |-> <<>>]

\* The closure route registers: what it calls when it runs. httpClient.Do
\* fails on a request whose context is cancelled. postOK and
\* pubErr are what httpClient.Do and Publish answer.
RouteHook(c, req, wr, pb, postOK, pubErr) ==
  LET rt == c.Route[1]
  IN IF rt.TargetType = "url"
     THEN [w |-> wr, calls |-> <<Call("httpClient.Do", 0, <<MakeAsyncRequest(AsContext(c, req), c)>>,
                           postOK /\ ~AsContext(c, req).done)>>]
     ELSE IF IsPublisherType(rt.TargetType) THEN
       IF ~pb THEN [w |-> wr, calls |-> <<>>]
       ELSE [w |-> wr, calls |-> <<Call("Publish", 0, <<rt.PublisherID, c.Body, AsContext(c, req)>>, pubErr = NoErr)>>]
     ELSE [w |-> wr, calls |-> <<>>]

\* -------------------------------------------------------------- ServeHTTP
\* stdHandler.subID, for a request context without a subscriber id value
SubID(hd) == hd.SubscriberID

\* The buggy variant: the context starts with a Route already in it.
StepCtxRouted(hd, req) ==
  [Context |-> "r.Context()", Body |-> req.Body[1], Role |-> hd.role, SubID |-> SubID(hd),
   Route |-> <<[TargetType |-> "url", PublisherID |-> "", URL |-> TargetURL, ActAsProxy |-> FALSE]>>]

\* stdHandler.stepCtx, after the body was read
StepCtx(hd, req) ==
  [Context |-> "r.Context()", Body |-> req.Body[1], Role |-> hd.role, SubID |-> SubID(hd), Route |-> <<>>]

\* r.Header.Set("X-Module-Name", ...); r.Header.Set("X-Role", ...)
Stamp(hd, req) == [req EXCEPT !.Header.XModuleName = "module", !.Header.XRole = hd.role]

\* The buggy variant: X-Role is left on the request.
UnstampModuleOnly(req) == [req EXCEPT !.Header.XModuleName = ""]

\* r.Header.Del("X-Module-Name"); r.Header.Del("X-Role")
Unstamp(req) == [req EXCEPT !.Header.XModuleName = "", !.Header.XRole = ""]

\* The buggy variant: the loop goes on after a failed step.
LoopNextNoAbort(err) == "steps"

\* The loop over h.steps: a failed step ends it (SendNack; return).
LoopNext(err) == IF err # NoErr THEN "returned" ELSE "steps"

\* The buggy variant: the body stream is not rebuilt from the buffer.
RestoreBodyNone(req, c) == req

\* r.Body = io.NopCloser(bytes.NewReader(ctx.Body))
RestoreBody(req, c) == [req EXCEPT !.Body = <<c.Body>>]

\* ServeHTTP up to the loop: stamp the internal headers and build the
\* StepContext; a body that cannot be read is answered with a NACK.
Enter(requests) ==
  /\ pc = "idle"
  /\ \E req \in requests, readOK \in BOOLEAN :
       IF readOK
       THEN /\ r' = [Stamp(h, req) EXCEPT !.Body = <<>>]
            /\ ctx' = StepCtx(h, req)
            /\ w' = NewResponseWriter
            /\ pc' = "steps"
            /\ idx' = 1
            /\ calls' = Append(calls, Call("stepCtx", 0, <<>>, TRUE))
       ELSE /\ r' = Unstamp([Stamp(h, req) EXCEPT !.Body = <<>>])
            /\ w' = SendNack(req.MsgID, NewResponseWriter, NewBadReqErr)
            /\ pc' = "returned"
            /\ calls' = calls \o <<Call("stepCtx", 0, <<>>, FALSE),
                                    Call("SendNack", 0, <<NewBadReqErr>>, TRUE)>>
            /\ UNCHANGED <<ctx, idx>>
  /\ UNCHANGED <<h, hooks, now, codec, enc, payload, build, sideVars>>

ServeHTTPEnter == Enter(Requests)

\* ServeHTTP entered with a request for a module built with the ONDC steps.
OndcServeHTTPEnter == Enter(OndcRequests)

\* One pass of the loop body for a step that ended with err, having changed
\* the context, the request and the response headers as given.
StepDone(name, err, c2, r2, w2, hk2, stepCalls) ==
  LET run == Call("Run", idx, <<name>>, err = NoErr)
      failed == err # NoErr
  IN /\ ctx' = c2
     /\ pc' = LoopNext(err)
     /\ idx' = idx + 1
     /\ w' = IF failed THEN SendNack(r2.MsgID, w2, err) ELSE w2
     /\ r' = IF pc' = "returned" THEN Unstamp(r2) ELSE r2
     /\ calls' = calls \o <<run>> \o stepCalls
                   \o (IF failed THEN <<Call("SendNack", idx, <<err>>, TRUE)>> ELSE <<>>)
     /\ hooks' = hk2
     /\ UNCHANGED <<h, codec, enc, payload, build, sideVars>>

AtStep(name) == pc = "steps" /\ idx <= Len(h.steps) /\ h.steps[idx] = name

PluginErrs == {NoErr, PlainErr}

RunValidateSign ==
  /\ AtStep("validateSign")
  /\ \E kmErr \in PluginErrs, valErr \in PluginErrs :
       LET res == ValidateHeaders(ctx, r, w, idx, kmErr, valErr)
       IN StepDone("validateSign", res.err, ctx, r, res.w, hooks, res.calls)
  /\ UNCHANGED now

RunSign ==
  /\ AtStep("sign")
  /\ \E d \in 0..MaxTick, kmErr \in PluginErrs, signErr \in PluginErrs :
       LET res == SignRun(ctx, r, idx, now, now + d, kmErr, signErr)
       IN /\ StepDone("sign", res.err, ctx, res.r, w, hooks, res.calls)
          /\ now' = now + d

RunAddRoute ==
  /\ AtStep("addRoute")
  /\ \/ \E route \in Routes :
          LET res == AddRouteRun(ctx, idx, NoErr, route)
          IN StepDone("addRoute", res.err, res.ctx, r, w, hooks, res.calls)
     \/ \E routeErr \in {NotFoundErr, PlainErr} :
          LET res == AddRouteRun(ctx, idx, routeErr, CHOOSE x \in Routes : TRUE)
          IN StepDone("addRoute", res.err, res.ctx, r, w, hooks, res.calls)
  /\ UNCHANGED now

\* A step loaded from a step plugin: it may rewrite the body, may register a
\* post-response hook of its own on ctx.Request, and may fail.
RunCustom ==
  /\ AtStep("custom")
  /\ \/ \E body \in Bodies :
          StepDone("custom", NoErr, [ctx EXCEPT !.Body = body], r, w, hooks, <<>>)
     \/ StepDone("custom", NoErr, ctx, r, w, RegisterPostResponseHook(r, hooks, "customHook"),
                 <<Call("RegisterPostResponseHook", idx, <<"customHook">>, r.hooks)>>)
     \/ \E err \in {PlainErr, NewBadReqErr} :
          StepDone("custom", err, ctx, r, w, hooks, <<>>)
  /\ UNCHANGED now

RunValidateSchema ==
  /\ AtStep("validateSchema")
  /\ LET res == ValidateSchemaRun(payload, idx)
     IN StepDone("validateSchema", res.err, ctx, r, w, hooks, res.calls)
  /\ UNCHANGED now

\* What the ONDC plugins answer: success, an untyped error, a WorkbenchErr.
OndcErrs == {NoErr, PlainErr, WorkbenchErr("NACK", <<"4", "2", "2">>)}

RunWorkbenchReceive ==
  /\ AtStep("ondcWorkbenchReceiver")
  /\ \E wbErr \in OndcErrs :
       LET res == WorkbenchReceiveRun(ctx, r, idx, wbErr)
       IN StepDone("ondcWorkbenchReceiver", res.err, res.ctx, r, w, hooks, res.calls)
  /\ UNCHANGED now

RunValidateOndc ==
  /\ AtStep("validateOndcPayload")
  /\ \E ondcErr \in OndcErrs :
       LET res == ValidateOndcRun(ctx, r, idx, ondcErr)
       IN StepDone("validateOndcPayload", res.err, ctx, r, w, hooks, res.calls)
  /\ UNCHANGED now

RunValidateOndcCallSave ==
  /\ AtStep("validateOndcCallSave")
  /\ \E saveErr \in {NoErr, PlainErr} :
       LET res == ValidateOndcCallSaveRun(ctx, r, idx, saveErr)
       IN StepDone("validateOndcCallSave", res.err, ctx, r, w, hooks, res.calls)
  /\ UNCHANGED now

\* ServeHTTP after the loop: rebuild the body stream, then SendAck when no
\* route was set, else drop the internal headers and route.
Dispatch ==
  /\ pc = "steps" /\ idx > Len(h.steps)
  /\ LET r1 == RestoreBody(r, ctx)
     IN IF ctx.Route = <<>>
        THEN /\ w' = SendAck(w)
             /\ r' = Unstamp(r1)
             /\ calls' = Append(calls, Call("SendAck", 0, <<>>, TRUE))
             /\ hooks' = hooks
        ELSE \E pubErr \in PluginErrs, upstream \in {200, 502} :
               LET r2 == Unstamp(r1)
                   res == Route(ctx, r2, w, hooks, h.publisher, pubErr, upstream)
               IN /\ w' = res.w
                  /\ r' = IF ctx.Route[1].ActAsProxy /\ ctx.Route[1].TargetType = "url"
                          THEN [r2 EXCEPT !.Header.XForwardedHost = r2.Host] ELSE r2
                  /\ hooks' = res.hooks
                  /\ calls' = calls \o res.calls
  /\ pc' = "returned"
  /\ UNCHANGED <<h, ctx, idx, now, codec, enc, payload, build, sideVars>>

\* The post-response middleware, after the handler returned: the first hook
\* of the list runs and leaves the list.
RunHook ==
  /\ pc = "returned" /\ hooks # <<>>
  /\ \E postOK \in BOOLEAN, pubErr \in PluginErrs :
       LET res == IF Head(hooks) = "routeHook"
                  THEN RouteHook(ctx, r, w, h.publisher, postOK, pubErr)
                  ELSE [w |-> w, calls |-> <<>>]
       IN /\ calls' = calls \o <<Call("hook", 0, <<Head(hooks)>>, TRUE)>> \o res.calls
          /\ w' = res.w
  /\ hooks' = Tail(hooks)
  /\ UNCHANGED <<h, r, ctx, pc, idx, now, codec, enc, payload, build, sideVars>>

\* The request context is cancelled: the client went away, or the HTTP
\* exchange ended, after the response was written and with a hook yet to run.
RequestContextDone ==
  /\ pc = "returned" /\ hooks # <<>> /\ ~r.done
  /\ r' = [r EXCEPT !.done = TRUE]
  /\ UNCHANGED <<h, w, ctx, pc, idx, hooks, calls, now, codec, enc, payload, build, sideVars>>

\* ---------------------------------------------- the codec on its own inputs
\* mode "build": sub, kid, created, sig are the arguments of
\* generateAuthHeader, and the header it builds is then parsed. mode "raw":
\* the header is pre, then keyId=" (or a look-alike when hasKeyId is false),
\* then mid, and is parsed as it is.
NoCodec == [mode |-> "", stage |-> "", sub |-> <<>>, kid |-> <<>>, created |-> 0, sig |-> <<>>,
            pre |-> <<>>, hasKeyId |-> FALSE, mid |-> <<>>, header |-> <<>>, parsed |-> <<>>]

KeyIdLookAlike == <<"k", "e", "y", "i", "d", "=", Quote>>
Sigs == {Sig, KeyIdPrefix \o <<"x", Quote>>}

BuildInputs ==
  {[NoCodec EXCEPT !.mode = "build", !.stage = "input", !.sub = sub, !.kid = kid,
                   !.created = c, !.sig = sg] :
     sub \in Strs(MaxLen), kid \in Strs(MaxLen), c \in {0, Epoch}, sg \in Sigs}

RawInputs ==
  {[NoCodec EXCEPT !.mode = "raw", !.stage = "header", !.pre = pre, !.hasKeyId = k, !.mid = mid,
                   !.header = pre \o (IF k THEN KeyIdPrefix ELSE KeyIdLookAlike) \o mid] :
     pre \in {<<>>, SignatureSp}, k \in BOOLEAN, mid \in Strs(MidLen)}

\* The encoder inputs and the body content when they play no part.
NoEnc == [stage |-> ""]
NoPayload == [json |-> TRUE]
\* No module is being built.
NoBuild == [pc |-> "off"]
\* No schemaValidator is in use.
NoSv == [pc |-> "off"]
\* No routing rules are being loaded.
NoRouter == [pc |-> "off"]
\* No requests are served side by side.
NoPar == [pc |-> "off"]
SideOff == sv = NoSv /\ router = NoRouter /\ par = NoPar

\* No request is served while the codec is exercised.
HandlerOff ==
  /\ h = [steps |-> <<>>, role |-> "bap", SubscriberID |-> <<>>, publisher |-> FALSE]
  /\ r = NoRequest
  /\ w = NewResponseWriter
  /\ ctx = NoCtx
  /\ pc = "off"
  /\ idx = 0
  /\ hooks = <<>>
  /\ calls = <<>>
  /\ now = Epoch
  /\ payload = NoPayload

CodecInit == HandlerOff /\ enc = NoEnc /\ build = NoBuild /\ SideOff /\ codec \in BuildInputs \cup RawInputs

CodecGenerate ==
  /\ codec.mode = "build" /\ codec.stage = "input"
  /\ codec' = [codec EXCEPT !.stage = "header",
                            !.header = GenerateAuthHeader(codec.sub, codec.kid, codec.created,
                                                          codec.created + SignatureWindow, codec.sig)]
  /\ UNCHANGED <<handlerVars, enc, payload, build, sideVars>>

CodecParse ==
  /\ codec.stage = "header"
  /\ codec' = [codec EXCEPT !.stage = "parsed", !.parsed = <<ParseHeader(codec.header)>>]
  /\ UNCHANGED <<handlerVars, enc, payload, build, sideVars>>

CodecNext == CodecGenerate \/ CodecParse

SpecCodec == CodecInit /\ [][CodecNext]_vars

\* ------------------------------------- the response encoder on its own inputs
\* The errors SendNack is given: untyped errors with two messages, each typed
\* kind on its own, under a fmt.Errorf wrapper, and around another typed kind.
WorkbenchCodes == {<<"4", "2", "2">>, <<"5", "0", "0">>, <<"4", "a">>}
TypedKinds == {"BadReq", "SignValidation", "NotFound", "SchemaValidation"}
PlainErrs == {[ErrEntry("plain") EXCEPT !.msg = m] : m \in {"boom", "secret"}}
TypedErrs ==
  {[ErrEntry(k) EXCEPT !.msg = "detail"] : k \in TypedKinds \ {"SchemaValidation"}}
    \cup {NewSchemaValidationErr(<<"context.domain", "message.order">>)[1]}
    \cup {[WorkbenchErr(b, c)[1] EXCEPT !.msg = "wb"] : b \in {"NACK", "HTTP", ""}, c \in WorkbenchCodes}
ErrChains ==
  {<<e>> : e \in PlainErrs \cup TypedErrs}
    \cup {Wrap(<<e>>) : e \in PlainErrs \cup TypedErrs}
    \cup {WrapKind(k, <<e>>) : k \in TypedKinds, e \in TypedErrs}
MsgIDs == {"", "m1"}

EncInputs ==
  [stage : {"input"}, id1 : MsgIDs, id2 : MsgIDs, err1 : ErrChains,
   err2 : {<<e>> : e \in PlainErrs}, w1 : {NewResponseWriter}, w2 : {NewResponseWriter}]

EncInit == HandlerOff /\ codec = NoCodec /\ build = NoBuild /\ SideOff /\ enc \in EncInputs

\* SendNack for the two requests, each with its own MessageID and error.
EncSendNack ==
  /\ enc.stage = "input"
  /\ enc' = [enc EXCEPT !.stage = "sent",
                        !.w1 = SendNack(enc.id1, enc.w1, enc.err1),
                        !.w2 = SendNack(enc.id2, enc.w2, enc.err2)]
  /\ UNCHANGED <<handlerVars, codec, payload, build, sideVars>>

EncNext == EncSendNack

SpecEncoder == EncInit /\ [][EncNext]_vars

\* ----------------------------------------- a module that validates schemas
\* What the schema says of a body: valid, a ValidationError with no, one or
\* two causes (each an instance location), another error, or a schema file
\* that does not compile.
Outcomes ==
  {[kind |-> k, causes |-> <<>>] : k \in {"valid", "invalid", "other", "nocompile"}}
    \cup {[kind |-> "invalid", causes |-> c] :
            c \in {<<<<"context", "domain">>>>, <<<<"context", "domain">>, <<"message">>>>}}
Payloads ==
  {[json |-> FALSE, Domain |-> <<>>, Version |-> <<>>, CoreVersion |-> <<>>,
    outcome |-> [kind |-> "valid", causes |-> <<>>]]}
    \cup [json : {TRUE}, Domain : {<<>>, <<"R", ":", "1">>, <<"x">>}, Version : {<<>>, <<"1">>},
          CoreVersion : {<<>>, <<"1">>, <<"2">>}, outcome : Outcomes]

SchemaHandlers ==
  [steps : SeqsUpTo({"validateSchema", "addRoute"}, MaxSteps), role : {"bap"},
   SubscriberID : {<<"a">>}, publisher : {TRUE}]

SchemaInit ==
  /\ h \in SchemaHandlers
  /\ r = NoRequest
  /\ w = NewResponseWriter
  /\ ctx = NoCtx
  /\ pc = "idle"
  /\ idx = 0
  /\ hooks = <<>>
  /\ calls = <<>>
  /\ now = Epoch
  /\ codec = NoCodec
  /\ enc = NoEnc
  /\ payload \in Payloads
  /\ build = NoBuild
  /\ SideOff

SchemaNext ==
  \/ ServeHTTPEnter
  \/ RunValidateSchema
  \/ RunAddRoute
  \/ Dispatch
  \/ RunHook
  \/ RequestContextDone

SpecSchema == SchemaInit /\ [][SchemaNext]_vars

\* ------------------------------------------- a module with the ONDC steps
OndcStepNames == {"ondcWorkbenchReceiver", "validateOndcPayload", "validateOndcCallSave", "sign", "addRoute"}

OndcHandlers ==
  [steps : SeqsUpTo(OndcStepNames, MaxSteps), role : {"bap"},
   SubscriberID : {<<>>, <<"a">>}, publisher : {TRUE}]

OndcInit ==
  /\ h \in OndcHandlers
  /\ r = NoRequest
  /\ w = NewResponseWriter
  /\ ctx = NoCtx
  /\ pc = "idle"
  /\ idx = 0
  /\ hooks = <<>>
  /\ calls = <<>>
  /\ now = Epoch
  /\ codec = NoCodec
  /\ enc = NoEnc
  /\ payload = NoPayload
  /\ build = NoBuild
  /\ SideOff

OndcNext ==
  \/ OndcServeHTTPEnter
  \/ RunWorkbenchReceive
  \/ RunValidateOndc
  \/ RunValidateOndcCallSave
  \/ RunSign
  \/ RunAddRoute
  \/ Dispatch
  \/ RunHook
  \/ RequestContextDone

SpecOndc == OndcInit /\ [][OndcNext]_vars

\* ------------------------------------------------------- building a module
\* The plugin kinds of PluginCfg, in the order initPlugins loads them.
PluginOrder == <<"Cache", "Registry", "KeyManager", "SignValidator", "SchemaValidator", "Router",
                 "Publisher", "Signer", "TransportWrapper", "OndcValidator", "OndcWorkbench">>
PluginNames == {PluginOrder[k] : k \in DOMAIN PluginOrder}

\* The step names initSteps has a case for.
BuiltInSteps == {"sign", "validateSign", "validateSchema", "addRoute", "validateOndcPayload",
                 "validateOndcCallSave", "ondcWorkbenchReceiver", "ondcWorkbenchValidateContext"}

\* The stdHandler fields each step constructor checks for nil, in order.
Requires(step) ==
  CASE step = "sign" -> <<"Signer", "KeyManager">>
    [] step = "validateSign" -> <<"SignValidator", "KeyManager">>
    [] step = "validateSchema" -> <<"SchemaValidator">>
    [] step = "addRoute" -> <<"Router">>
    [] step \in {"validateOndcPayload", "validateOndcCallSave"} -> <<"OndcValidator">>
    [] step \in {"ondcWorkbenchReceiver", "ondcWorkbenchValidateContext"} -> <<"OndcWorkbench">>

\* A stdHandler plugin field: the instance loaded, or nil.
Nil == "nil"
Field(loaded, name) == IF name \in loaded THEN name ELSE Nil

\* A build error is the sequence of the parts of its message; nil is <<>>.
\* One entry of the build log: a plugin factory called, the HTTP client built.
BuildCall(op, name, args, ok) == [op |-> op, name |-> name, args |-> args, ok |-> ok]

\* What the plugin manager's factory is given besides the plugin config.
FactoryArgs(name, loaded) ==
  IF name = "KeyManager" THEN <<Field(loaded, "Cache"), Field(loaded, "Registry")>>
  ELSE IF name \in {"OndcValidator", "OndcWorkbench"} THEN <<Field(loaded, "Cache")>>
  ELSE <<>>

\* The buggy variant: the KeyManager is loaded whether or not there is a Cache.
LoadNoCacheCheck(name, configured, loaded, ok) ==
  IF name \notin configured THEN [err |-> <<>>, loaded |-> loaded, log |-> <<>>]
  ELSE IF ~ok
    THEN [err |-> <<"failed to load ", name, " plugin (", name, "): ", "factory error">>,
          loaded |-> loaded, log |-> <<BuildCall("factory", name, FactoryArgs(name, loaded), FALSE)>>]
  ELSE [err |-> <<>>, loaded |-> loaded \cup {name},
        log |-> <<BuildCall("factory", name, FactoryArgs(name, loaded), TRUE)>>]

\* loadPlugin, loadKeyManager, loadOndcValidator, loadOndcWorkbench: a plugin
\* without config is skipped, a KeyManager needs a Cache, and ok is whether
\* the factory of the plugin manager succeeds.
Load(name, configured, loaded, ok) ==
  IF name \notin configured THEN [err |-> <<>>, loaded |-> loaded, log |-> <<>>]
  ELSE IF name = "KeyManager" /\ Field(loaded, "Cache") = Nil
    THEN [err |-> <<"failed to load ", name, " plugin (", name, "): ", "Cache", " plugin not configured">>,
          loaded |-> loaded, log |-> <<>>]
  ELSE IF ~ok
    THEN [err |-> <<"failed to load ", name, " plugin (", name, "): ", "factory error">>,
          loaded |-> loaded, log |-> <<BuildCall("factory", name, FactoryArgs(name, loaded), FALSE)>>]
  ELSE [err |-> <<>>, loaded |-> loaded \cup {name},
        log |-> <<BuildCall("factory", name, FactoryArgs(name, loaded), TRUE)>>]

\* The buggy variant: a step is built whatever plugins are there.
NewBuiltInStepUnchecked(step, loaded) == [err |-> <<>>, step |-> <<[name |-> step, kind |-> "builtin"]>>]

\* newSignStep, newValidateSignStep, ...: the first nil field is the error.
NewBuiltInStep(step, loaded) ==
  LET missing == {k \in 1..Len(Requires(step)) : Field(loaded, Requires(step)[k]) = Nil}
  IN IF missing = {} THEN [err |-> <<>>, step |-> <<[name |-> step, kind |-> "builtin"]>>]
     ELSE [err |-> <<"invalid config: ", Requires(step)[CHOOSE k \in missing : \A j \in missing : k <= j],
                     " plugin not configured">>,
           step |-> <<>>]

\* NewInstrumentedStep(s, step, h.moduleName): the decorator around s, or an
\* error when the instrumentation cannot be set up (ok is FALSE).
NewInstrumentedStep(s, step, ok) ==
  IF ok THEN [err |-> <<>>, step |-> <<[name |-> step, kind |-> "instrumented", step |-> s]>>]
  ELSE [err |-> <<"failed to instrument step">>, step |-> <<>>]

RECURSIVE RegisterStepsDropRaw(_, _, _, _)
\* The buggy variant: a step that cannot be instrumented is left out.
RegisterStepsDropRaw(cfgSteps, loaded, steps, bare) ==
  IF cfgSteps = <<>> THEN [err |-> <<>>, steps |-> <<>>, warned |-> <<>>]
  ELSE LET step == Head(cfgSteps)
           s == IF step \in BuiltInSteps THEN NewBuiltInStep(step, loaded)
                ELSE IF step \in steps THEN [err |-> <<>>, step |-> <<[name |-> step, kind |-> "custom"]>>]
                ELSE [err |-> <<"unrecognized step: ", step>>, step |-> <<>>]
           rest == RegisterStepsDropRaw(Tail(cfgSteps), loaded, steps, bare)
       IN IF s.err # <<>> THEN [err |-> s.err, steps |-> <<>>, warned |-> <<>>]
          ELSE IF rest.err # <<>> THEN rest
          ELSE LET wrapped == NewInstrumentedStep(s.step[1], step, step \notin bare)
               IN [err |-> <<>>,
                   steps |-> wrapped.step \o rest.steps,
                   warned |-> (IF wrapped.err # <<>> THEN <<step>> ELSE <<>>) \o rest.warned]

RECURSIVE RegisterSteps(_, _, _, _)
\* initSteps, second loop: the built-in of a name wins over a plugin step of
\* the same id, and the first error ends the loop. Each step is appended
\* wrapped by NewInstrumentedStep, or as it is, with a warning logged, when
\* the wrapping fails; bare are the step names for which it fails.
RegisterSteps(cfgSteps, loaded, steps, bare) ==
  IF cfgSteps = <<>> THEN [err |-> <<>>, steps |-> <<>>, warned |-> <<>>]
  ELSE LET step == Head(cfgSteps)
           s == IF step \in BuiltInSteps THEN NewBuiltInStep(step, loaded)
                ELSE IF step \in steps THEN [err |-> <<>>, step |-> <<[name |-> step, kind |-> "custom"]>>]
                ELSE [err |-> <<"unrecognized step: ", step>>, step |-> <<>>]
           rest == RegisterSteps(Tail(cfgSteps), loaded, steps, bare)
       IN IF s.err # <<>> THEN [err |-> s.err, steps |-> <<>>, warned |-> <<>>]
          ELSE IF rest.err # <<>> THEN rest
          ELSE LET wrapped == NewInstrumentedStep(s.step[1], step, step \notin bare)
               IN [err |-> <<>>,
                   steps |-> (IF wrapped.err # <<>> THEN s.step ELSE wrapped.step) \o rest.steps,
                   warned |-> (IF wrapped.err # <<>> THEN <<step>> ELSE <<>>) \o rest.warned]

\* initSteps. pluginSteps are the ids of cfg.Plugins.Steps, failing the ids
\* for which mgr.Step answers an error, bare the step names for which
\* NewInstrumentedStep answers an error.
InitSteps(loaded, pluginSteps, failing, cfgSteps, bare) ==
  LET bad == {k \in 1..Len(pluginSteps) : pluginSteps[k] \in failing}
      first == CHOOSE k \in bad : \A j \in bad : k <= j
      tried == IF bad = {} THEN Len(pluginSteps) ELSE first
      log == [k \in 1..tried |-> BuildCall("Step", pluginSteps[k], <<>>, pluginSteps[k] \notin failing)]
  IN IF bad # {}
     THEN [err |-> <<"failed to initialize plugin step ", pluginSteps[first], ": ", "factory error">>,
           steps |-> <<>>, log |-> log, warned |-> <<>>]
     ELSE LET res == RegisterSteps(cfgSteps, loaded, {pluginSteps[k] : k \in 1..Len(pluginSteps)}, bare)
          IN [err |-> res.err, steps |-> res.steps, log |-> log, warned |-> res.warned]

\* The module configurations built: at most MaxUnset plugin kinds left out.
BuildConfigs ==
  {[pc |-> "plugins", k |-> 1, cfg |-> [Plugins |-> P, PluginSteps |-> <<>>, Steps |-> <<>>],
    loaded |-> {}, log |-> <<>>, client |-> <<>>, steps |-> <<>>, handler |-> FALSE, err |-> <<>>,
    warned |-> <<>>] :
     P \in {Q \in SUBSET PluginNames : Cardinality(PluginNames \ Q) <= MaxUnset}}

\* The step names and the plugin step ids a configuration gives: the
\* built-ins, the id of a step plugin, and a name that is neither.
BuildStepNames == BuiltInSteps \cup {"custom", "other"}
PluginStepIDs == {<<>>, <<"custom">>, <<"sign">>}
\* The step names whose instrumentation fails: none, or these two.
BareSteps == {{}, {"addRoute", "custom"}}

BuildInit == HandlerOff /\ codec = NoCodec /\ enc = NoEnc /\ SideOff /\ build \in BuildConfigs

\* initPlugins, one plugin kind: the next of the fixed order.
BuildLoadPlugin ==
  /\ build.pc = "plugins"
  /\ \E ok \in BOOLEAN :
       LET res == Load(PluginOrder[build.k], build.cfg.Plugins, build.loaded, ok)
       IN build' = [build EXCEPT
            !.loaded = res.loaded,
            !.log = @ \o res.log,
            !.err = IF res.err # <<>> THEN <<"failed to initialize plugins: ">> \o res.err ELSE <<>>,
            !.k = @ + 1,
            !.pc = IF res.err # <<>> THEN "done"
                   ELSE IF build.k = Len(PluginOrder) THEN "client" ELSE "plugins"]
  /\ UNCHANGED <<handlerVars, codec, enc, payload, sideVars>>

\* newHTTPClient: the transport is wrapped when a TransportWrapper was loaded.
BuildHTTPClient ==
  /\ build.pc = "client"
  /\ build' = [build EXCEPT
       !.client = <<[wrapper |-> Field(build.loaded, "TransportWrapper")]>>,
       !.log = Append(@, BuildCall("newHTTPClient", "", <<Field(build.loaded, "TransportWrapper")>>, TRUE)),
       !.pc = "steps"]
  /\ UNCHANGED <<handlerVars, codec, enc, payload, sideVars>>

\* initSteps and the return of NewStdHandler: the handler, or nil and an error.
BuildInitSteps ==
  /\ build.pc = "steps"
  /\ \E pluginSteps \in PluginStepIDs, failing \in {{}, {"custom"}},
        cfgSteps \in SeqsUpTo(BuildStepNames, MaxSteps), bare \in BareSteps :
       LET res == InitSteps(build.loaded, pluginSteps, failing, cfgSteps, bare)
       IN build' = [build EXCEPT
            !.cfg.PluginSteps = pluginSteps, !.cfg.Steps = cfgSteps, !.warned = res.warned,
            !.log = @ \o res.log \o <<BuildCall("initSteps", "", <<>>, res.err = <<>>)>>,
            !.steps = res.steps,
            !.handler = res.err = <<>>,
            !.err = IF res.err # <<>> THEN <<"failed to initialize steps: ">> \o res.err ELSE <<>>,
            !.pc = "done"]
  /\ UNCHANGED <<handlerVars, codec, enc, payload, sideVars>>

BuildNext == BuildLoadPlugin \/ BuildHTTPClient \/ BuildInitSteps

SpecBuild == BuildInit /\ [][BuildNext]_vars

\* --------------------------------------------------- schema-compile cache
\* The goroutines that call Validate on one schemaValidator at the same time.
Goroutines == 1..MaxGo
\* v.schemaFiles, as initialise left it, and the keys Validate asks for: the
\* indexed ones and one that no file gives.
CacheSchemaFiles == SchemaFiles \cup {<<"b">>}
CacheKeys == CacheSchemaFiles \cup {<<"x">>}
\* A nil *jsonschema.Schema; a compiled schema is the number of its compile.
NoSchema == 0

\* sync.RWMutex: the goroutines holding it for reading, the one holding it
\* for writing, and the one that announced a write and waits for the readers.
NewRWMutex == [readers |-> {}, writer |-> 0, pending |-> 0]
\* RLock blocks while a writer holds the lock or waits for it.
CanRLock(mu) == mu.writer = 0 /\ mu.pending = 0
RLock(mu, g) == [mu EXCEPT !.readers = @ \cup {g}]
RUnlock(mu, g) == [mu EXCEPT !.readers = @ \ {g}]

\* One call of getCompiledSchema: where it is, its argument, its locals
\* (schema, and ok of the schemaFiles lookup) and what it returned.
NoCall == [pc |-> "idle", key |-> <<>>, schema |-> NoSchema, ok |-> FALSE, ret |-> <<>>]
Return(schema, err) == <<[schema |-> schema, err |-> err]>>

\* New: empty cache, free locks.
NewSchemaValidator ==
  [pc |-> "on",
   schemaCache |-> [k \in CacheKeys |-> NoSchema],
   cacheMu |-> NewRWMutex,
   compileMu |-> 0,
   compiled |-> <<>>,
   go |-> [g \in Goroutines |-> NoCall]]

SvAt(g, l) == sv.pc = "on" /\ sv.go[g].pc = l
svOthers == <<handlerVars, codec, enc, payload, build, router, par>>

\* Validate calls getCompiledSchema(schemaFileName).
SvCall(g) ==
  /\ SvAt(g, "idle")
  /\ \E k \in CacheKeys : sv' = [sv EXCEPT !.go[g].pc = "L295", !.go[g].key = k]
  /\ UNCHANGED svOthers

\* v.cacheMu.RLock(), first check
SvRLock1(g) ==
  /\ SvAt(g, "L295")
  /\ CanRLock(sv.cacheMu)
  /\ sv' = [sv EXCEPT !.cacheMu = RLock(@, g), !.go[g].pc = "L296"]
  /\ UNCHANGED svOthers

\* The first look at the cache, and on a miss at schemaFiles.
SvCheck1(g) ==
  /\ SvAt(g, "L296")
  /\ LET k == sv.go[g].key
         hit == sv.schemaCache[k] # NoSchema
     IN sv' = [sv EXCEPT !.go[g].schema = sv.schemaCache[k],
                         !.go[g].ok = ~hit /\ k \in CacheSchemaFiles,
                         !.go[g].pc = IF hit THEN "L297" ELSE "L301"]
  /\ UNCHANGED svOthers

\* v.cacheMu.RUnlock() of the first check: return the hit, return the
\* key-not-found error, or go on to compile.
SvRUnlock1(g) ==
  /\ SvAt(g, "L297") \/ SvAt(g, "L301")
  /\ LET c == sv.go[g]
     IN sv' = [sv EXCEPT
          !.cacheMu = RUnlock(@, g),
          !.go[g].ret = IF c.pc = "L297" THEN Return(c.schema, NoErr)
                        ELSE IF ~c.ok THEN Return(NoSchema, Wrap(PlainErr))
                        ELSE <<>>,
          !.go[g].pc = IF c.pc = "L297" \/ ~c.ok THEN "returned" ELSE "L307"]
  /\ UNCHANGED svOthers

\* v.compileMu.Lock(); its Unlock is deferred.
SvCompileLock(g) ==
  /\ SvAt(g, "L307")
  /\ sv.compileMu = 0
  /\ sv' = [sv EXCEPT !.compileMu = g, !.go[g].pc = "L310"]
  /\ UNCHANGED svOthers

\* v.cacheMu.RLock(), second check
SvRLock2(g) ==
  /\ SvAt(g, "L310")
  /\ CanRLock(sv.cacheMu)
  /\ sv' = [sv EXCEPT !.cacheMu = RLock(@, g), !.go[g].pc = "L311"]
  /\ UNCHANGED svOthers

\* The buggy variant: no second look, the cache is taken to be as it was.
SvCheck2Blind(g) ==
  /\ SvAt(g, "L311")
  /\ sv' = [sv EXCEPT !.go[g].pc = "L315"]
  /\ UNCHANGED svOthers

\* The second look at the cache, under the compile mutex.
SvCheck2(g) ==
  /\ SvAt(g, "L311")
  /\ LET k == sv.go[g].key
     IN sv' = [sv EXCEPT !.go[g].schema = sv.schemaCache[k],
                         !.go[g].pc = IF sv.schemaCache[k] # NoSchema THEN "L312" ELSE "L315"]
  /\ UNCHANGED svOthers

\* The buggy variant: the hit of the second check returns with the read lock held.
SvRUnlock2Leaky(g) ==
  /\ SvAt(g, "L312") \/ SvAt(g, "L315")
  /\ LET c == sv.go[g]
     IN sv' = [sv EXCEPT
          !.cacheMu = IF c.pc = "L312" THEN @ ELSE RUnlock(@, g),
          !.go[g].ret = IF c.pc = "L312" THEN Return(c.schema, NoErr) ELSE <<>>,
          !.go[g].pc = IF c.pc = "L312" THEN "defer" ELSE "L317"]
  /\ UNCHANGED svOthers

\* v.cacheMu.RUnlock() of the second check.
SvRUnlock2(g) ==
  /\ SvAt(g, "L312") \/ SvAt(g, "L315")
  /\ LET c == sv.go[g]
     IN sv' = [sv EXCEPT
          !.cacheMu = RUnlock(@, g),
          !.go[g].ret = IF c.pc = "L312" THEN Return(c.schema, NoErr) ELSE <<>>,
          !.go[g].pc = IF c.pc = "L312" THEN "defer" ELSE "L317"]
  /\ UNCHANGED svOthers

\* v.compiler.Compile(schemaPath) is entered.
SvCompileBegin(g) ==
  /\ SvAt(g, "L317")
  /\ sv' = [sv EXCEPT !.go[g].pc = "compiling"]
  /\ UNCHANGED svOthers

\* Compile returns a new schema, or an error that getCompiledSchema wraps
\* and returns.
SvCompileEnd(g) ==
  /\ SvAt(g, "compiling")
  /\ \E ok \in BOOLEAN :
       LET id == Len(sv.compiled) + 1
       IN sv' = [sv EXCEPT
            !.compiled = IF ok THEN Append(@, [key |-> sv.go[g].key, schema |-> id, by |-> g]) ELSE @,
            !.go[g].schema = IF ok THEN id ELSE NoSchema,
            !.go[g].ret = IF ok THEN <<>> ELSE Return(NoSchema, Wrap(PlainErr)),
            !.go[g].pc = IF ok THEN "L322" ELSE "defer"]
  /\ UNCHANGED svOthers

\* v.cacheMu.Lock() is called: from now on no new reader gets in.
SvLock(g) ==
  /\ SvAt(g, "L322")
  /\ sv.cacheMu.writer = 0 /\ sv.cacheMu.pending = 0
  /\ sv' = [sv EXCEPT !.cacheMu.pending = g, !.go[g].pc = "L322w"]
  /\ UNCHANGED svOthers

\* v.cacheMu.Lock() returns once the readers have left.
SvLocked(g) ==
  /\ SvAt(g, "L322w")
  /\ sv.cacheMu.readers = {}
  /\ sv' = [sv EXCEPT !.cacheMu.pending = 0, !.cacheMu.writer = g, !.go[g].pc = "L323"]
  /\ UNCHANGED svOthers

\* v.schemaCache[schemaKey] = compiledSchema
SvStore(g) ==
  /\ SvAt(g, "L323")
  /\ sv' = [sv EXCEPT !.schemaCache[sv.go[g].key] = sv.go[g].schema, !.go[g].pc = "L324"]
  /\ UNCHANGED svOthers

\* v.cacheMu.Unlock(); return compiledSchema, nil
SvUnlock(g) ==
  /\ SvAt(g, "L324")
  /\ sv' = [sv EXCEPT !.cacheMu.writer = 0,
                      !.go[g].ret = Return(sv.go[g].schema, NoErr),
                      !.go[g].pc = "defer"]
  /\ UNCHANGED svOthers

\* The deferred v.compileMu.Unlock() runs and the call returns.
SvDeferredUnlock(g) ==
  /\ SvAt(g, "defer")
  /\ sv' = [sv EXCEPT !.compileMu = 0, !.go[g].pc = "returned"]
  /\ UNCHANGED svOthers

\* One step of the call goroutine g makes.
GetCompiledSchemaStep(g) ==
  \/ SvCall(g)
  \/ SvRLock1(g)
  \/ SvCheck1(g)
  \/ SvRUnlock1(g)
  \/ SvCompileLock(g)
  \/ SvRLock2(g)
  \/ SvCheck2(g)
  \/ SvRUnlock2(g)
  \/ SvCompileBegin(g)
  \/ SvCompileEnd(g)
  \/ SvLock(g)
  \/ SvLocked(g)
  \/ SvStore(g)
  \/ SvUnlock(g)
  \/ SvDeferredUnlock(g)

CacheInit ==
  /\ HandlerOff /\ codec = NoCodec /\ enc = NoEnc /\ build = NoBuild /\ router = NoRouter
  /\ par = NoPar
  /\ sv = NewSchemaValidator

CacheNext == \E g \in Goroutines : GetCompiledSchemaStep(g)

SpecCache == CacheInit /\ [][CacheNext]_vars

\* The Go scheduler runs every goroutine that can run, and a goroutine
\* waiting for a lock is woken when the lock is released.
SpecCacheFair == SpecCache /\ \A g \in Goroutines : WF_vars(GetCompiledSchemaStep(g))

\* ---------------------------------------------------------- routing rules
\* Versions, domains and endpoints (actions) that rules and requests name.
V1 == <<"1", ".", "1", ".", "0">>
V2 == <<"2", ".", "0", ".", "0">>
V21 == <<"2", ".", "1", ".", "0">>
RuleVersions == {V1, V2, V21}
RuleDomains == {<<>>, <<"X">>, <<"Y">>}
RuleEndpoints == {<<"search">>, <<"init">>, <<"search", "init">>}
\* A routing rule of the rules file, as far as the index is concerned.
RoutingRules == [version : RuleVersions, domain : RuleDomains, endpoints : RuleEndpoints]
\* A Beckn v2.x.x version.
IsV2(version) == version # <<>> /\ version[1] = "2"

\* The buggy variant: the domain of a v2 rule is part of its key.
IndexKeyWithDomain(rule, endpoint) ==
  [version |-> rule.version, domain |-> rule.domain, action |-> endpoint]

\* The key of a rule's endpoint in the index: (version, action) for v2,
\* (version, domain, action) for v1.
IndexKey(rule, endpoint) ==
  [version |-> rule.version, domain |-> IF IsV2(rule.version) THEN <<>> ELSE rule.domain,
   action |-> endpoint]

\* The configuration errors of the load, as the parts of their messages.
DuplicateV2Err(endpoint, version) ==
  <<"duplicate endpoint '", endpoint, "' found for version ", version,
    ". For v2.x.x, domain is ignored, so you can only define each endpoint once per version.">>
DuplicateV1Err(endpoint, version, domain) ==
  <<"duplicate endpoint '", endpoint, "' found for version ", version, " and domain ", domain>>
DomainRequiredErr(version) == <<"domain is required for version ", version>>

RECURSIVE AddEndpoints(_, _, _, _)
\* The endpoints of rule number k are put into the index one after the
\* other; the first whose key is taken ends the load with an error.
AddEndpoints(index, rule, k, endpoints) ==
  IF endpoints = <<>> THEN [index |-> index, err |-> <<>>]
  ELSE LET key == IndexKey(rule, Head(endpoints))
       IN IF \E e \in index : e.key = key
          THEN [index |-> index,
                err |-> IF IsV2(rule.version) THEN DuplicateV2Err(Head(endpoints), rule.version)
                        ELSE DuplicateV1Err(Head(endpoints), rule.version, rule.domain)]
          ELSE AddEndpoints(index \cup {[key |-> key, rule |-> k]}, rule, k, Tail(endpoints))

\* One rule is compiled: a v1 rule needs a domain, a v2 rule with a domain
\* gets a warning, then its endpoints are indexed.
CompileRule(index, rule, k) ==
  IF ~IsV2(rule.version) /\ rule.domain = <<>>
  THEN [index |-> index, err |-> DomainRequiredErr(rule.version), warned |-> FALSE]
  ELSE LET res == AddEndpoints(index, rule, k, rule.endpoints)
       IN [index |-> res.index, err |-> res.err,
           warned |-> IsV2(rule.version) /\ rule.domain # <<>>]

\* Resolution: the rules the index gives for a request, by the v2 key first
\* and by the v1 key otherwise.
Resolve(index, version, domain, action) ==
  LET v2 == {e \in index : e.key = [version |-> version, domain |-> <<>>, action |-> action]
                           /\ IsV2(e.key.version)}
      v1 == {e \in index : e.key = [version |-> version, domain |-> domain, action |-> action]}
  IN IF v2 # {} THEN v2 ELSE v1

\* The rule sets given to the router.
RouterConfigs ==
  {[pc |-> "loading", rules |-> rules, k |-> 1, index |-> {}, warnings |-> {}, err |-> <<>>,
    route |-> <<>>] : rules \in SeqsUpTo(RoutingRules, MaxRules)}

routerOthers == <<handlerVars, codec, enc, payload, build, sv, par>>

RouterInit ==
  /\ HandlerOff /\ codec = NoCodec /\ enc = NoEnc /\ build = NoBuild /\ sv = NoSv /\ par = NoPar
  /\ router \in RouterConfigs

\* The next rule of the file is compiled; after the last the index is loaded.
RouterLoadRule ==
  /\ router.pc = "loading"
  /\ IF router.k > Len(router.rules)
     THEN router' = [router EXCEPT !.pc = "loaded"]
     ELSE LET res == CompileRule(router.index, router.rules[router.k], router.k)
          IN router' = [router EXCEPT
               !.index = res.index,
               !.err = res.err,
               !.warnings = IF res.warned THEN @ \cup {router.k} ELSE @,
               !.k = @ + 1,
               !.pc = IF res.err # <<>> THEN "failed" ELSE "loading"]
  /\ UNCHANGED routerOthers

\* Route: a request is resolved against the loaded index.
RouterRoute ==
  /\ router.pc = "loaded"
  /\ \E version \in RuleVersions, domain \in RuleDomains \ {<<>>}, action \in {"search", "init"} :
       router' = [router EXCEPT !.route =
         <<[version |-> version, domain |-> domain, action |-> action,
            rules |-> {e.rule : e \in Resolve(router.index, version, domain, action)}]>>]
  /\ UNCHANGED routerOthers

RouterNext == RouterLoadRule \/ RouterRoute

SpecRouter == RouterInit /\ [][RouterNext]_vars

\* ------------------------------------- two requests served by one handler
\* net/http runs ServeHTTP on one goroutine per request; the two requests in
\* flight at the same time are told apart by their ids.
ReqIDs == {1, 2}

\* The handler both requests are served by: its steps are sign and addRoute,
\* each listed once at most.
ParHandlers ==
  {hd \in Handlers : /\ \A k \in 1..Len(hd.steps) : hd.steps[k] \in {"sign", "addRoute"}
                     /\ hd.role = "bap" /\ hd.SubscriberID = <<"a">> /\ hd.publisher}

\* Request i as it reaches ServeHTTP: its own body and message id.
ParRequest(i) ==
  [NoRequest EXCEPT !.Method = "POST", !.URL = [Path |-> "/s", RawQuery |-> ""],
                    !.Body = <<IF i = 1 THEN "b0" ELSE "b1">>, !.Host = "adapter",
                    !.MsgID = IF i = 1 THEN "m1" ELSE "m2", !.hooks = TRUE]

\* What the router answers for a request: a route, or an error.
ParRoutes ==
  {rt \in Routes : \/ rt.TargetType = "url"
                   \/ rt.TargetType = "publisher" /\ ~rt.ActAsProxy}
RouterAnswers ==
  {[err |-> NoErr, route |-> rt] : rt \in ParRoutes}
    \cup {[err |-> PlainErr, route |-> CHOOSE rt \in ParRoutes : TRUE]}

\* Everything outside the handler that decides how request i is served: the
\* request, whether its body can be read, and what the signer and the router
\* answer for it.
ParInputs(i) ==
  [req : {ParRequest(i)}, readOK : BOOLEAN, signErr : PluginErrs, router : RouterAnswers]

\* The locals of one ServeHTTP call before it starts.
NewServe(in) ==
  [in |-> in, r |-> NoRequest, w |-> NewResponseWriter, ctx |-> NoCtx,
   pc |-> "idle", idx |-> 0, hooks |-> <<>>, calls |-> <<>>]

\* Nothing of the call is left to run.
Served(q) == q.pc = "returned" /\ q.hooks = <<>>

\* One step of a ServeHTTP call of handler hd whose locals are q, working on
\* the StepContext c: the entry, one pass of the loop, the dispatch after it,
\* or the hook the post-response middleware runs.
ServeStep(hd, q, c) ==
  IF q.pc = "idle"
  THEN IF q.in.readOK
       THEN [q EXCEPT !.r = [Stamp(hd, q.in.req) EXCEPT !.Body = <<>>],
                      !.ctx = StepCtx(hd, q.in.req),
                      !.pc = "steps",
                      !.idx = 1,
                      !.calls = <<Call("stepCtx", 0, <<>>, TRUE)>>]
       ELSE [q EXCEPT !.r = Unstamp([Stamp(hd, q.in.req) EXCEPT !.Body = <<>>]),
                      !.w = SendNack(q.in.req.MsgID, NewResponseWriter, NewBadReqErr),
                      !.pc = "returned",
                      !.calls = <<Call("stepCtx", 0, <<>>, FALSE),
                                  Call("SendNack", 0, <<NewBadReqErr>>, TRUE)>>]
  ELSE IF q.pc = "steps" /\ q.idx <= Len(hd.steps)
  THEN LET name == hd.steps[q.idx]
           sign == SignRun(c, q.r, q.idx, Epoch, Epoch, NoErr, q.in.signErr)
           add == AddRouteRun(c, q.idx, q.in.router.err, q.in.router.route)
           err == IF name = "sign" THEN sign.err ELSE add.err
           r2 == IF name = "sign" THEN sign.r ELSE q.r
           failed == err # NoErr
       IN [q EXCEPT !.ctx = IF name = "sign" THEN c ELSE add.ctx,
                    !.pc = LoopNext(err),
                    !.idx = @ + 1,
                    !.w = IF failed THEN SendNack(r2.MsgID, @, err) ELSE @,
                    !.r = IF LoopNext(err) = "returned" THEN Unstamp(r2) ELSE r2,
                    !.calls = @ \o <<Call("Run", q.idx, <<name>>, ~failed)>>
                                \o (IF name = "sign" THEN sign.calls ELSE add.calls)
                                \o (IF failed THEN <<Call("SendNack", q.idx, <<err>>, TRUE)>>
                                    ELSE <<>>)]
  ELSE IF q.pc = "steps"
  THEN LET r1 == RestoreBody(q.r, c)
           r2 == Unstamp(r1)
           res == Route(c, r2, q.w, q.hooks, hd.publisher, NoErr, 200)
       IN IF c.Route = <<>>
          THEN [q EXCEPT !.w = SendAck(@), !.r = r2, !.pc = "returned",
                         !.calls = Append(@, Call("SendAck", 0, <<>>, TRUE))]
          ELSE [q EXCEPT !.w = res.w,
                         !.r = IF c.Route[1].ActAsProxy /\ c.Route[1].TargetType = "url"
                               THEN [r2 EXCEPT !.Header.XForwardedHost = r2.Host] ELSE r2,
                         !.hooks = res.hooks,
                         !.pc = "returned",
                         !.calls = @ \o res.calls]
  ELSE IF q.hooks # <<>>
  THEN LET res == RouteHook(c, q.r, q.w, hd.publisher, TRUE, NoErr)
       IN [q EXCEPT !.w = res.w, !.hooks = Tail(@),
                    !.calls = @ \o <<Call("hook", 0, <<Head(q.hooks)>>, TRUE)>> \o res.calls]
  ELSE q

\* The buggy variant: the StepContext is kept in one place for the handler,
\* so a call works on the context of whichever call was entered first.
CtxOfShared(qs, i) ==
  LET entered == {j \in ReqIDs : qs[j].pc # "idle"}
  IN IF entered = {} THEN qs[i].ctx ELSE qs[CHOOSE j \in entered : \A k \in entered : j <= k].ctx

\* The StepContext call i works on: ctx is a local variable of ServeHTTP,
\* built by stepCtx for this call.
CtxOf(qs, i) == qs[i].ctx

\* The most steps one call takes: the entry, the loop, the dispatch, the hook.
ServeSteps(hd) == Len(hd.steps) + 3

\* The call with input in served alone by hd, n steps on.
RECURSIVE Alone(_, _, _)
Alone(hd, in, n) ==
  IF n = 0 THEN NewServe(in)
  ELSE LET q == Alone(hd, in, n - 1) IN ServeStep(hd, q, q.ctx)

parOthers == <<handlerVars, codec, enc, payload, build, sv, router>>

ParInit ==
  /\ HandlerOff /\ codec = NoCodec /\ enc = NoEnc /\ build = NoBuild
  /\ sv = NoSv /\ router = NoRouter
  /\ \E hd \in ParHandlers, q \in [ReqIDs -> UNION {ParInputs(i) : i \in ReqIDs}] :
       /\ \A i \in ReqIDs : q[i] \in ParInputs(i)
       /\ par = [pc |-> "on", h |-> hd, q |-> [i \in ReqIDs |-> NewServe(q[i])]]

\* Call i takes its next step, whatever the other call is doing.
ParTake(i) ==
  /\ par' = [par EXCEPT !.q[i] = ServeStep(par.h, par.q[i], CtxOf(par.q, i))]
  /\ UNCHANGED parOthers

ParEnter(i) == par.pc = "on" /\ par.q[i].pc = "idle" /\ ParTake(i)

ParRunStep(i) ==
  par.pc = "on" /\ par.q[i].pc = "steps" /\ par.q[i].idx <= Len(par.h.steps) /\ ParTake(i)

ParDispatch(i) ==
  par.pc = "on" /\ par.q[i].pc = "steps" /\ par.q[i].idx > Len(par.h.steps) /\ ParTake(i)

ParRunHook(i) ==
  par.pc = "on" /\ par.q[i].pc = "returned" /\ par.q[i].hooks # <<>> /\ ParTake(i)

ParNext == \E i \in ReqIDs : ParEnter(i) \/ ParRunStep(i) \/ ParDispatch(i) \/ ParRunHook(i)

SpecPar == ParInit /\ [][ParNext]_vars

Init ==
  /\ h \in Handlers
  /\ r = NoRequest
  /\ w = NewResponseWriter
  /\ ctx = NoCtx
  /\ pc = "idle"
  /\ idx = 0
  /\ hooks = <<>>
  /\ calls = <<>>
  /\ now = Epoch
  /\ codec = NoCodec
  /\ enc = NoEnc
  /\ payload = NoPayload
  /\ build = NoBuild
  /\ SideOff

Next ==
  \/ ServeHTTPEnter
  \/ RunValidateSign
  \/ RunSign
  \/ RunAddRoute
  \/ RunCustom
  \/ Dispatch
  \/ RunHook
  \/ RequestContextDone

Spec == Init /\ [][Next]_vars

\* ------------------------------------------------------------------ claims
\* A well-formed subscriber id or key id: no '|', no '"', and no white space
\* at either end.
WellFormed(s) == Pipe \notin {s[i] : i \in 1..Len(s)} /\ Quote \notin {s[i] : i \in 1..Len(s)}
                   /\ TrimSpace(s) = s

\* C6: parsing the header generateAuthHeader builds from well-formed sub and
\* kid gives back sub, kid and the algorithm "ed25519", without error.
C6_RoundTrip ==
  (codec.mode = "build" /\ codec.stage = "parsed" /\ WellFormed(codec.sub) /\ WellFormed(codec.kid))
    => /\ codec.parsed[1].err = ""
       /\ codec.parsed[1].val =
            <<[SubscriberID |-> codec.sub, UniqueID |-> codec.kid, Algorithm |-> Ed25519]>>

C6_Witness ==
  /\ codec.mode = "build" /\ codec.stage = "parsed"
  /\ codec.sub = <<"a", "a">> /\ codec.kid = <<"a">> /\ codec.sig # Sig
  /\ codec.parsed[1].val # <<>>
  /\ codec.parsed[1].val[1].SubscriberID = <<"a", "a">>

\* The text of a raw header between keyId=" and the first quote after it.
QuotePositions(mid) == {i \in 1..Len(mid) : mid[i] = Quote}
FirstQuote(mid) == CHOOSE i \in QuotePositions(mid) : \A j \in QuotePositions(mid) : i <= j
PipesBeforeQuote(mid) == Cardinality({i \in 1..(FirstQuote(mid) - 1) : mid[i] = Pipe})

\* C7: parseHeader succeeds exactly when keyId=" is there, a closing quote
\* follows it and the text between them has three '|'-separated components
\* (two separators); in every other case it returns an error and no value.
C7_ParseErrors ==
  (codec.mode = "raw" /\ codec.stage = "parsed")
    => LET res == codec.parsed[1]
           shaped == /\ codec.hasKeyId
                     /\ QuotePositions(codec.mid) # {}
                     /\ PipesBeforeQuote(codec.mid) = 2
       IN /\ (res.err = "") <=> shaped
          /\ (res.err # "") <=> (res.val = <<>>)

C7_Witness ==
  /\ codec.mode = "raw" /\ codec.stage = "parsed"
  /\ codec.hasKeyId /\ codec.mid = <<"a", Pipe, Pipe, Quote>>
  /\ codec.parsed[1].err = ""
  /\ codec.parsed[1].val[1].SubscriberID = <<"a">>

C7_WitnessNoClosingQuote ==
  /\ codec.mode = "raw" /\ codec.stage = "parsed"
  /\ codec.hasKeyId /\ codec.mid = <<"a", Pipe, Pipe, "a">>
  /\ codec.parsed[1].err # ""

\* The positions in the history of the given operations.
Where(ops) == {k \in 1..Len(calls) : calls[k].op \in ops}
\* The Run calls, in the order they were made.
Runs == SelectSeq(calls, LAMBDA e : e.op = "Run")
\* The runs of the named step.
RunsOf(name) == {k \in Where({"Run"}) : calls[k].args[1] = name}
\* Outbound deliveries: the reverse proxy, the async POST and Publish.
Deliveries == Where({"proxy", "httpClient.Do", "Publish"})
\* Everything that dispatches a request: deliveries and hook registration.
Dispatches == Deliveries \cup Where({"RegisterPostResponseHook", "hook"})

\* C1: the Run calls made for a request are those of a prefix of h.steps, in
\* order, one per position; a failed Run is the last one; and a request whose
\* body was read and whose runs all succeeded has run every step by the time
\* ServeHTTP dispatches or returns.
C1_PipelineOrder ==
  /\ Len(Runs) <= Len(h.steps)
  /\ \A k \in 1..Len(Runs) :
       /\ Runs[k].i = k
       /\ Runs[k].args[1] = h.steps[k]
       /\ ~Runs[k].ok => k = Len(Runs)
  /\ (pc = "returned" /\ calls[1].ok /\ \A k \in 1..Len(Runs) : Runs[k].ok)
       => Len(Runs) = Len(h.steps)

C1_Witness ==
  /\ pc = "returned" /\ Len(h.steps) = 2 /\ h.steps[1] # h.steps[2]
  /\ Len(Runs) = 1 /\ ~Runs[1].ok

C1_WitnessAll ==
  /\ pc = "returned" /\ Len(h.steps) = 2 /\ h.steps[1] # h.steps[2]
  /\ Len(Runs) = 2 /\ Runs[1].ok

\* C2 as claimed: with a header_validation cookie absent or other than
\* "false", a successful run of validateSign has looked up the key of the
\* parsed keyId and had the SignValidator accept the body and the header.
C2_SuccessMeansValidated ==
  r.Cookies.header_validation # Cookie("false")
    => \A k \in RunsOf("validateSign") :
         calls[k].ok
           => /\ \E j \in Where({"LookupNPKeys"}) : calls[j].i = calls[k].i /\ calls[j].ok
              /\ \E j \in Where({"Validate"}) : calls[j].i = calls[k].i /\ calls[j].ok

\* C3: after a failed run of validateSign the client has a 401 NACK, the
\* challenge header is the realm of the StepContext subscriber id, ServeHTTP
\* has returned, and no step, routing or dispatch followed the failed run
\* (a hook an earlier step registered may still run).
C3_SignFailure ==
  \A k \in RunsOf("validateSign") :
    ~calls[k].ok
      => /\ pc = "returned"
         /\ w.status = 401 /\ w.body = NackBody(BecknError(ErrEntry("SignValidation"))) /\ w.writes = 1
         /\ w.Header.UnaAuthorizedHeaderGateway = UnauthHeader(ctx.SubID)
         /\ \A g \in 1..Len(hooks) : hooks[g] # "routeHook"
         /\ \A j \in (k + 1)..Len(calls) :
              \/ calls[j].op \in {"LookupNPKeys", "Validate", "SendNack"} /\ calls[j].i = calls[k].i
              \/ calls[j].op = "hook" /\ calls[j].args[1] # "routeHook"

C3_Witness ==
  /\ Len(h.steps) = 2 /\ h.steps[2] = "addRoute" /\ ctx.SubID = <<"a">>
  /\ \E k \in RunsOf("validateSign") : ~calls[k].ok
  /\ \E j \in Where({"Validate"}) : ~calls[j].ok
  /\ w.status = 401

C3_WitnessUnparsable ==
  /\ r.Header.Authorization = MalformedAuth
  /\ \E k \in RunsOf("validateSign") : ~calls[k].ok
  /\ Where({"LookupNPKeys"}) = {}

C3_WitnessLookup ==
  /\ \E k \in RunsOf("validateSign") : ~calls[k].ok
  /\ \E j \in Where({"LookupNPKeys"}) : ~calls[j].ok

\* C4: for a request with cookie header_validation=false every run of
\* validateSign succeeds, no call is made at a validateSign position to the
\* KeyManager or the SignValidator, and no response header is set: the
\* challenge header stays unset and the response writer is untouched while
\* the steps run.
C4_CookieGating ==
  r.Cookies.header_validation = Cookie("false")
    => /\ \A k \in RunsOf("validateSign") : calls[k].ok
       /\ \A k \in 1..Len(calls) :
            (calls[k].i > 0 /\ h.steps[calls[k].i] = "validateSign") => calls[k].op = "Run"
       /\ Where({"LookupNPKeys", "Validate"}) = {}
       /\ w.Header.UnaAuthorizedHeaderGateway = <<>>
       /\ pc = "steps" => w = NewResponseWriter

C4_Witness ==
  /\ r.Cookies.header_validation = Cookie("false")
  /\ r.Header.Authorization = MalformedAuth
  /\ \E k \in RunsOf("validateSign") : calls[k].ok

\* C5 as claimed: every header the sign step sets has expires - created =
\* 300, and the Signer was given the same created and expires.
C5_SignatureWindow ==
  \A k \in Where({"Header.Set"}) :
    /\ calls[k].args[4] - calls[k].args[3] = SignatureWindow
    /\ \E j \in Where({"Sign"}) :
         /\ calls[j].i = calls[k].i
         /\ calls[j].args[3] = calls[k].args[3] /\ calls[j].args[4] = calls[k].args[4]
    /\ calls[k].args[2] =
         GenerateAuthHeader(ctx.SubID, KeySet.UniqueKeyID, calls[k].args[3], calls[k].args[4], Sig)

\* The body a delivery carried.
DeliveredBody(e) ==
  IF e.op = "Publish" THEN <<e.args[2]>>
  ELSE IF e.op = "httpClient.Do" THEN <<e.args[1].Body>>
  ELSE e.args[1].Body

\* C8: every delivery (reverse proxy, async POST, publish) carries exactly
\* the StepContext body as the last step left it, and deliveries happen only
\* for a pipeline that ran every step without error.
C8_BodyStability ==
  \A k \in Deliveries :
    /\ DeliveredBody(calls[k]) = <<ctx.Body>>
    /\ Len(Runs) = Len(h.steps) /\ \A j \in 1..Len(Runs) : Runs[j].ok

C8_Witness ==
  /\ ctx.Body = "b1"
  /\ \E k \in Where({"proxy"}) : calls[k].args[1].Body = <<"b1">>

C8_WitnessAsync ==
  /\ ctx.Body = "b1"
  /\ \E k \in Where({"httpClient.Do"}) : calls[k].args[1].Body = "b1"

C8_WitnessPublish ==
  /\ ctx.Body = "b1"
  /\ \E k \in Where({"Publish"}) : calls[k].args[2] = "b1"

\* The request was routed: the pipeline succeeded and route returned.
Routed(actAsProxy, targetTypes) ==
  /\ pc = "returned" /\ ctx.Route # <<>>
  /\ ctx.Route[1].ActAsProxy = actAsProxy /\ ctx.Route[1].TargetType \in targetTypes
  /\ Len(Runs) = Len(h.steps) /\ \A j \in 1..Len(Runs) : Runs[j].ok

\* C9 as claimed, for a handler with a Publisher: a request routed with
\* ActAsProxy=true to publisher or msgq was published once, with the route's
\* publisher id and the body, and answered ACK or NACK as Publish went.
C9_SyncPublish ==
  (Routed(TRUE, {"publisher", "msgq"}) /\ h.publisher)
    => /\ Cardinality(Where({"Publish"})) = 1
       /\ \A k \in Where({"Publish"}) :
            /\ calls[k].args[1] = ctx.Route[1].PublisherID /\ calls[k].args[2] = ctx.Body
            /\ calls[k].ok => (w.status = 200 /\ w.body = AckBody)
            /\ ~calls[k].ok => w.body.kind = "NACK"

\* C10 as claimed, for a request with the post-response middleware and a
\* handler with a Publisher: a request routed with ActAsProxy=false to url,
\* publisher or msgq has its response written, then the hook registered, no
\* delivery before the hook runs, and exactly one delivery once it has run.
C10_AsyncDelivery ==
  (Routed(FALSE, {"url", "publisher", "msgq"}) /\ r.hooks /\ h.publisher)
    => /\ w.writes = 1 /\ w.status = 200
       /\ \E a \in Where({"SendAck", "SendBody"}), g \in Where({"RegisterPostResponseHook"}) :
            /\ a < g /\ calls[g].ok
            /\ \A d \in Dispatches : a < d
            /\ \A d \in Deliveries \cup Where({"hook"}) : g < d
       /\ hooks = <<>>
            => /\ Cardinality(Where({"hook"})) = 1
               /\ Cardinality(Deliveries) = 1
               /\ \A d \in Deliveries :
                    /\ \A k \in Where({"hook"}) : k < d
                    /\ calls[d].op = IF ctx.Route[1].TargetType = "url" THEN "httpClient.Do"
                                     ELSE "Publish"

\* The target types a Route can have; any other is not recognized.
RecognizedTypes == {"url", "bpp", "bap", "msgq", "publisher"}

\* C11 as claimed: a request routed to a target type that is not recognized,
\* with ActAsProxy true or false, is answered with a 500 NACK and nothing is
\* delivered upstream, neither by route nor by a post-response hook.
C11_UnknownTargetType ==
  (/\ pc = "returned" /\ ctx.Route # <<>>
   /\ ctx.Route[1].TargetType \notin RecognizedTypes
   /\ Len(Runs) = Len(h.steps) /\ \A j \in 1..Len(Runs) : Runs[j].ok)
    => /\ w.status = 500 /\ w.body.kind = "NACK" /\ w.writes = 1
       /\ Deliveries = {}

\* C12: once ServeHTTP has returned, nothing a post-response hook does, a
\* failed async POST, a failed Publish or a missing Publisher included,
\* changes the response the client got or the handler's outcome.
C12_HookFailureSilent == [][pc = "returned" => (w' = w /\ pc' = pc)]_vars

\* A hook ran, its POST failed, and the client still has its ACK.
C12_Witness ==
  /\ Where({"hook"}) # {} /\ hooks = <<>>
  /\ \E k \in Where({"httpClient.Do"}) : ~calls[k].ok
  /\ w = SendAck(NewResponseWriter)

C12_WitnessPublish ==
  /\ Where({"hook"}) # {} /\ hooks = <<>>
  /\ \E k \in Where({"Publish"}) : ~calls[k].ok /\ \E j \in Where({"hook"}) : j < k
  /\ w = SendAck(NewResponseWriter)

C12_WitnessNoPublisher ==
  /\ Where({"hook"}) # {} /\ hooks = <<>>
  /\ ctx.Route # <<>> /\ ctx.Route[1].TargetType = "publisher" /\ ~h.publisher
  /\ Deliveries = {}
  /\ w = SendAck(NewResponseWriter)

\* C13: the custom-response-body cookie decides the response exactly when
\* the pipeline succeeded and the Route has ActAsProxy=false: then the client
\* gets 200 with the cookie value as JSON, or as {"message": value} when it
\* is not JSON, and no ACK; with ActAsProxy=true, with no Route, or after a
\* failed step, SendBody is never called and the body is never the cookie's.
C13_CustomResponseBody ==
  LET cookie == r.Cookies.custom_response_body
      async == /\ pc = "returned" /\ ctx.Route # <<>> /\ ~ctx.Route[1].ActAsProxy
               /\ Len(Runs) = Len(h.steps) /\ \A j \in 1..Len(Runs) : Runs[j].ok
  IN /\ (async /\ cookie.present)
          => /\ w.status = 200 /\ w.writes = 1
             /\ w.body.kind = (IF cookie.Value = "{}" THEN "json" ELSE "message")
             /\ w.body.message = <<cookie.Value>>
             /\ Where({"SendAck"}) = {} /\ Cardinality(Where({"SendBody"})) = 1
     /\ (async /\ ~cookie.present) => (w = SendAck(NewResponseWriter) /\ Where({"SendBody"}) = {})
     /\ ~async => (Where({"SendBody"}) = {} /\ w.body.kind \notin {"json", "message"})

C13_Witness ==
  /\ pc = "returned" /\ ctx.Route # <<>> /\ ~ctx.Route[1].ActAsProxy
  /\ r.Cookies.custom_response_body = Cookie("hi")
  /\ w.body.kind = "message" /\ w.body.message = <<"hi">>

C13_WitnessJSON ==
  /\ pc = "returned" /\ ctx.Route # <<>> /\ ~ctx.Route[1].ActAsProxy
  /\ r.Cookies.custom_response_body = Cookie("{}")
  /\ w.body.kind = "json"

C13_WitnessProxy ==
  /\ pc = "returned" /\ ctx.Route # <<>> /\ ctx.Route[1].ActAsProxy
  /\ ctx.Route[1].TargetType = "publisher" /\ h.publisher
  /\ r.Cookies.custom_response_body = Cookie("hi")
  /\ w.body = AckBody

C13_WitnessNoRoute ==
  /\ pc = "returned" /\ ctx.Route = <<>> /\ Len(Runs) = Len(h.steps)
  /\ r.Cookies.custom_response_body = Cookie("hi")
  /\ w.body = AckBody

\* The hooks registered (with a hook list attached), and the hooks run, in
\* the order of the calls.
Registered ==
  LET reg == SelectSeq(calls, LAMBDA e : e.op = "RegisterPostResponseHook" /\ e.ok)
  IN [k \in 1..Len(reg) |-> reg[k].args[1]]
Ran ==
  LET ran == SelectSeq(calls, LAMBDA e : e.op = "hook")
  IN [k \in 1..Len(ran) |-> ran[k].args[1]]

\* C14: the hooks registered for a request are stored in registration order
\* and run in that order, each once: the hooks run so far followed by the
\* hooks still stored are the hooks registered. The hook of the dispatcher is
\* registered only after the client response was written, and no hook runs
\* before the response was written and ServeHTTP returned.
C14_HookOrder ==
  /\ Ran \o hooks = Registered
  /\ \A g \in Where({"RegisterPostResponseHook"}) :
       calls[g].args[1] = "routeHook"
         => /\ \E a \in Where({"SendAck", "SendBody"}) : a < g
            /\ w.writes = 1
  /\ Where({"hook"}) # {} => (pc = "returned" /\ w.writes = 1)
  /\ \A k \in Where({"hook"}), g \in Where({"RegisterPostResponseHook"}) : g < k

C14_Witness ==
  /\ Registered = <<"customHook", "routeHook">>
  /\ Ran = Registered /\ hooks = <<>>

C14_WitnessStored ==
  /\ Registered = <<"customHook", "routeHook">>
  /\ Ran = <<>> /\ hooks = Registered

\* The context a delivery was made with.
DeliveryCtx(e) == IF e.op = "Publish" THEN e.args[3] ELSE e.args[1].Ctx
\* The deliveries made by a post-response hook.
HookDeliveries == {k \in Where({"httpClient.Do", "Publish"}) : \E j \in Where({"hook"}) : j < k}

\* C15 as claimed: the POST or publish a post-response hook makes is not
\* cancelled by the cancellation of the request's context: the context it
\* is made with is not done even when the request context is.
C15_DetachedDelivery ==
  \A k \in HookDeliveries : ~DeliveryCtx(calls[k]).done

\* The typed kinds in an error chain, and its outermost typed entry.
KindsOf(err) == {err[i].kind : i \in 1..Len(err)} \ {"plain"}
Outermost(err) ==
  err[CHOOSE i \in 1..Len(err) : err[i].kind # "plain" /\ \A j \in 1..(i - 1) : err[j].kind = "plain"]
\* A WorkbenchErr as the taxonomy has it: behavior NACK or HTTP, and for
\* HTTP a status code carried.
Listed(e) ==
  e.kind = "Workbench"
    => (e.behavior = "NACK" \/ (e.behavior = "HTTP" /\ e.code \in {<<"4", "2", "2">>, <<"5", "0", "0">>}))
\* The status the taxonomy gives an entry.
KindStatus(e) ==
  CASE e.kind = "BadReq" -> 400
    [] e.kind = "SignValidation" -> 401
    [] e.kind = "NotFound" -> 404
    [] e.kind = "SchemaValidation" -> 200
    [] e.kind = "Workbench" /\ e.behavior = "NACK" -> 200
    [] e.kind = "Workbench" /\ e.code = <<"4", "2", "2">> -> 422
    [] e.kind = "Workbench" /\ e.code = <<"5", "0", "0">> -> 500
    [] OTHER -> 500

\* C16: for an error with one typed kind in its chain, SendNack answers
\* BadRequest with 400, SignValidation with 401, NotFound with 404,
\* SchemaValidation with 200, a WorkbenchErr NACK with 200 and a WorkbenchErr
\* HTTP with the code it carries; an error with no typed kind with 500; and
\* the body written is a NACK, written once.
C16_StatusMapping ==
  (enc.stage = "sent" /\ Cardinality(KindsOf(enc.err1)) <= 1
     /\ \A i \in 1..Len(enc.err1) : Listed(enc.err1[i]))
    => /\ enc.w1.status = IF KindsOf(enc.err1) = {} THEN 500 ELSE KindStatus(Outermost(enc.err1))
       /\ enc.w1.body.kind = "NACK" /\ enc.w1.writes = 1 /\ ~enc.w1.panicked

C16_Witness ==
  /\ enc.stage = "sent"
  /\ Len(enc.err1) = 1 /\ enc.err1[1].kind = "Workbench" /\ enc.err1[1].behavior = "HTTP"
  /\ enc.err1[1].code = <<"4", "2", "2">>
  /\ enc.w1.status = 422 /\ enc.w1.body.kind = "NACK"

C16_WitnessNotFound ==
  /\ enc.stage = "sent" /\ Len(enc.err1) = 2 /\ enc.err1[1].kind = "plain"
  /\ enc.err1[2].kind = "NotFound" /\ enc.w1.status = 404

\* C17 as claimed: the NACK sent for an error of no recognized kind (HTTP
\* 500) carries the error message "INTERNAL_SERVER_ERROR", at resp.Error or
\* at resp.Message.Error.
C17_RedactedMessage ==
  (enc.stage = "sent" /\ KindsOf(enc.err1) = {})
    => /\ enc.w1.status = 500 /\ enc.w1.body.kind = "NACK"
       /\ \/ enc.w1.body.message = <<InternalServerErrorMsg>>
          \/ enc.w1.body.msgError = InternalServerErrorMsg

\* C18: two requests with the same MessageID whose errors have no recognized
\* kind get the same status and the same NACK body, whatever the messages of
\* the two errors.
C18_NoLeak ==
  (enc.stage = "sent" /\ enc.id1 = enc.id2 /\ KindsOf(enc.err1) = {} /\ KindsOf(enc.err2) = {})
    => (enc.w1.status = enc.w2.status /\ enc.w1.body = enc.w2.body)

C18_Witness ==
  /\ enc.stage = "sent" /\ enc.id1 = "m1" /\ enc.id2 = "m1"
  /\ enc.err1 = Errorf("boom") /\ enc.err2 = Errorf("secret")
  /\ enc.w1.status = 500 /\ enc.w1.body = enc.w2.body /\ enc.w1.body.kind = "NACK"

\* C19 as claimed: an error chain with typed kinds is answered with the
\* status of its outermost typed kind, and a chain with none with 500.
C19_NearestKind ==
  (enc.stage = "sent" /\ \A i \in 1..Len(enc.err1) : Listed(enc.err1[i]))
    => enc.w1.status = IF KindsOf(enc.err1) = {} THEN 500 ELSE KindStatus(Outermost(enc.err1))

\* The body has a domain and a version, and a schema is indexed for them.
HasContext == payload.json /\ payload.Domain # <<>>
                /\ (payload.Version # <<>> \/ payload.CoreVersion # <<>>)
HasSchema ==
  /\ payload.Domain = <<"R", ":", "1">>
  /\ payload.Version = <<"1">> \/ (payload.Version = <<>> /\ payload.CoreVersion = <<"1">>)

C20_WitnessNoSchema ==
  /\ \E k \in RunsOf("validateSchema") : ~calls[k].ok
  /\ payload.Domain = <<"x">> /\ payload.Version = <<"1">> /\ w.status = 400

C20_WitnessNoVersion ==
  /\ \E k \in RunsOf("validateSchema") : ~calls[k].ok
  /\ payload.Domain = <<"R", ":", "1">> /\ payload.Version = <<>> /\ payload.CoreVersion = <<>>
  /\ w.status = 400

\* C21: no request sent upstream by the reverse proxy carries X-Module-Name
\* or X-Role, an async POST carries only Content-Type and X-Forwarded-Host,
\* and once ServeHTTP has returned, on whichever path, the request has
\* neither internal header, whatever the client had sent under those names.
C21_InternalHeaders ==
  /\ \A k \in Where({"proxy"}) :
       calls[k].args[1].Header.XModuleName = "" /\ calls[k].args[1].Header.XRole = ""
  /\ \A k \in Where({"httpClient.Do"}) :
       DOMAIN calls[k].args[1].Header = {"ContentType", "XForwardedHost"}
  /\ pc = "returned" => (r.Header.XModuleName = "" /\ r.Header.XRole = "")

C21_Witness ==
  /\ pc = "returned" /\ h.role = "gateway" /\ Len(h.steps) = 2
  /\ \E k \in Where({"proxy"}) : calls[k].args[1].Header.Authorization # <<>>

C21_WitnessAsync == pc = "returned" /\ Where({"httpClient.Do"}) # {}

C21_WitnessNack ==
  /\ pc = "returned" /\ \E k \in Where({"SendNack"}) : calls[k].i = 2

C21_WitnessUnread ==
  /\ pc = "returned" /\ \E k \in Where({"stepCtx"}) : ~calls[k].ok

\* C22: the request the reverse proxy sends upstream has the method, the
\* query string and the headers of the request as ServeHTTP dispatched it
\* (X-Forwarded-Host set to its host), and the host and URL of the route
\* target.
C22_ProxyPreserves ==
  \A k \in Where({"proxy"}) :
    LET up == calls[k].args[1]
    IN /\ up.Method = r.Method
       /\ up.URL.RawQuery = r.URL.RawQuery
       /\ up.Header = [r.Header EXCEPT !.XForwardedHost = r.Host]
       /\ up.Host = ctx.Route[1].URL.Host
       /\ up.URL.Host = ctx.Route[1].URL.Host /\ up.URL.Path = ctx.Route[1].URL.Path

\* The subscriber id a step at position i works with: the value of the
\* subscriber_id cookie once ondcWorkbenchReceiver succeeded at an earlier
\* position of a request that has the cookie, else the configured one.
ExpectedSubID(i) ==
  IF r.Cookies.subscriber_id.present
       /\ \E k \in RunsOf("ondcWorkbenchReceiver") : calls[k].ok /\ calls[k].i < i
  THEN r.Cookies.subscriber_id.Value
  ELSE SubID(h)

\* C29: StepContext.SubID is the subscriber_id cookie value once
\* ondcWorkbenchReceiver has succeeded for a request with that cookie, and the
\* handler's subscriber id otherwise (no cookie, or WorkbenchReceiver failed);
\* a later sign step asks the KeyManager for exactly that id, and fails
\* without asking when the id is empty.
C29_SubIDCookie ==
  ctx # NoCtx
    => /\ ctx.SubID = ExpectedSubID(idx)
       /\ \A k \in Where({"Keyset"}) : calls[k].args[1] = ExpectedSubID(calls[k].i)
       /\ \A k \in RunsOf("sign") :
            ExpectedSubID(calls[k].i) = <<>>
              => ~calls[k].ok /\ \A j \in Where({"Keyset"}) : calls[j].i # calls[k].i

C29_Witness ==
  /\ SubID(h) = <<"a">> /\ ctx.SubID = <<"c">>
  /\ h.steps = <<"ondcWorkbenchReceiver", "sign">>
  /\ \E k \in Where({"Keyset"}) : calls[k].args[1] = <<"c">>

C29_WitnessFailed ==
  /\ SubID(h) = <<"a">> /\ ctx.SubID = <<"a">> /\ r.Cookies.subscriber_id = SubCookie(<<"c">>)
  /\ \E k \in RunsOf("ondcWorkbenchReceiver") : ~calls[k].ok

C29_WitnessEmptyCookie ==
  /\ SubID(h) = <<"a">> /\ ctx.SubID = <<>> /\ r.Cookies.subscriber_id = SubCookie(<<>>)
  /\ \E k \in RunsOf("sign") : ~calls[k].ok

\* The calls of the given operation made by the step at position i.
CallsAt(op, i) == {j \in Where({op}) : calls[j].i = i}

\* C30: a run of validateOndcPayload for a request with cookie
\* protocol_validation=false succeeds without calling ValidatePayload; for any
\* other value, or no cookie, it calls ValidatePayload once; and every run of
\* validateOndcCallSave calls SaveValidationData once, whatever the cookies.
C30_ProtocolValidationCookie ==
  /\ \A k \in RunsOf("validateOndcPayload") :
       IF r.Cookies.protocol_validation = Cookie("false")
       THEN calls[k].ok /\ CallsAt("ValidatePayload", calls[k].i) = {}
       ELSE Cardinality(CallsAt("ValidatePayload", calls[k].i)) = 1
  /\ \A k \in RunsOf("validateOndcCallSave") :
       Cardinality(CallsAt("SaveValidationData", calls[k].i)) = 1
  /\ \A j \in Where({"ValidatePayload"}) : h.steps[calls[j].i] = "validateOndcPayload"
  /\ \A j \in Where({"SaveValidationData"}) : h.steps[calls[j].i] = "validateOndcCallSave"

C30_Witness ==
  /\ r.Cookies.protocol_validation = Cookie("false")
  /\ h.steps = <<"validateOndcPayload", "validateOndcCallSave">>
  /\ RunsOf("validateOndcPayload") # {} /\ Where({"ValidatePayload"}) = {}
  /\ Where({"SaveValidationData"}) # {}

C30_WitnessTrue ==
  /\ r.Cookies.protocol_validation = Cookie("true")
  /\ \E k \in RunsOf("validateOndcPayload") : ~calls[k].ok

C30_WitnessNoCookie ==
  /\ ~r.Cookies.protocol_validation.present
  /\ \E k \in RunsOf("validateOndcPayload") : calls[k].ok

\* C27: within one request the Route of the StepContext is set at most once:
\* a step never replaces a Route that is already there, and a failed Router
\* call leaves the Route as it was.
C27_RouteSetOnce ==
  [][(ctx.Route # <<>> => ctx'.Route = ctx.Route)
       /\ (\A k \in (Len(calls) + 1)..Len(calls') :
             (calls'[k].op = "Route" /\ ~calls'[k].ok) => ctx'.Route = ctx.Route)]_vars

\* The history entries a step adds.
NewCalls == SubSeq(calls', Len(calls) + 1, Len(calls'))

\* C28: a run of sign with an empty subscriber id fails with a BadRequest
\* error and calls neither the KeyManager nor the Signer; with a subscriber id
\* and successful Keyset and Sign calls it sets one header, the gateway-class
\* one for role gateway and the subscriber-class one otherwise, whose keyId is
\* subscriber id | unique key id | ed25519, and leaves the other header alone.
C28_SignStep ==
  [][AtStep("sign") =>
       LET ops == {NewCalls[j].op : j \in 1..Len(NewCalls)}
           sets == {j \in 1..Len(NewCalls) : NewCalls[j].op = "Header.Set"}
           header == IF ctx.Role = "gateway" THEN "GatewayAuthorization" ELSE "Authorization"
           other == IF ctx.Role = "gateway" THEN "Authorization" ELSE "GatewayAuthorization"
       IN /\ ctx.SubID = <<>>
               => /\ ops = {"Run", "SendNack"}
                  /\ \A j \in 1..Len(NewCalls) :
                       NewCalls[j].op = "SendNack" => NewCalls[j].args[1] = NewBadReqErr
                  /\ w'.status = 400
                  /\ r'.Header.Authorization = r.Header.Authorization
                  /\ r'.Header.GatewayAuthorization = r.Header.GatewayAuthorization
          /\ (ctx.SubID # <<>> /\ \A j \in 1..Len(NewCalls) : NewCalls[j].ok)
               => /\ ops = {"Run", "Keyset", "Sign", "Header.Set"}
                  /\ Cardinality(sets) = 1
                  /\ \A j \in sets : NewCalls[j].args[1] = header /\ NewCalls[j].args[2] = r'.Header[header]
                  /\ KeyIDPart(r'.Header[header])
                       = ctx.SubID \o <<Pipe>> \o KeySet.UniqueKeyID \o <<Pipe>> \o Ed25519
                  /\ r'.Header[other] = r.Header[other]]_vars

C28_Witness ==
  /\ h.role = "gateway" /\ r.Header.Authorization = MalformedAuth
  /\ r.Header.GatewayAuthorization # <<>>
  /\ \E k \in RunsOf("sign") : calls[k].ok

C28_WitnessSubscriber ==
  /\ h.role = "bap" /\ r.Header.GatewayAuthorization = <<>>
  /\ r.Header.Authorization \notin AuthHeaders
  /\ \E k \in RunsOf("sign") : calls[k].ok

C28_WitnessNoSubID ==
  /\ SubID(h) = <<>> /\ w.status = 400
  /\ \E k \in RunsOf("sign") : ~calls[k].ok

\* The build of the module has ended, with a handler or with an error.
Built == build.pc = "done"
\* The configured steps whose constructor finds a required plugin unset, up
\* to the first step initSteps fails on.
FirstBadStep ==
  LET bad == {k \in 1..Len(build.cfg.Steps) :
                \/ build.cfg.Steps[k] \notin BuiltInSteps
                \/ \E c \in 1..Len(Requires(build.cfg.Steps[k])) :
                     Requires(build.cfg.Steps[k])[c] \notin build.loaded}
  IN IF bad = {} THEN 0 ELSE CHOOSE k \in bad : \A j \in bad : k <= j
\* The parts of the error message.
ErrParts == {build.err[k] : k \in 1..Len(build.err)}

\* C23: when the first step initSteps fails on is a built-in whose required
\* plugin is unset, NewStdHandler returns no handler and an error whose
\* message names that step.
C23_MissingCapabilityNamesStep ==
  (Built /\ Len(build.log) > 0 /\ build.log[Len(build.log)].op = "initSteps"
     /\ FirstBadStep > 0 /\ build.cfg.Steps[FirstBadStep] \in BuiltInSteps
     /\ \A k \in 1..Len(build.log) : build.log[k].op = "Step" => build.log[k].ok)
    => /\ ~build.handler
       /\ build.cfg.Steps[FirstBadStep] \in ErrParts

\* The ids of the step plugins of the configuration.
PluginStepSet == {build.cfg.PluginSteps[k] : k \in 1..Len(build.cfg.PluginSteps)}

\* C24: NewStdHandler returns a handler exactly when every configured plugin
\* and step plugin was loaded, every configured step is a built-in or a
\* loaded step plugin, and every built-in step has the plugins it requires;
\* a plugin that is not configured is never loaded, and a build that fails
\* returns an error and no handler.
C24_HandlerIffBuildable ==
  /\ build.pc # "off" => build.loaded \subseteq build.cfg.Plugins
  /\ Built =>
       /\ build.handler <=>
            /\ build.loaded = build.cfg.Plugins
            /\ \A k \in 1..Len(build.log) : build.log[k].ok
            /\ \A id \in PluginStepSet :
                 \E k \in 1..Len(build.log) : build.log[k].op = "Step" /\ build.log[k].name = id
            /\ build.log # <<>> /\ build.log[Len(build.log)].op = "initSteps"
            /\ \A k \in 1..Len(build.cfg.Steps) :
                 LET step == build.cfg.Steps[k]
                 IN IF step \in BuiltInSteps
                    THEN \A c \in 1..Len(Requires(step)) : Requires(step)[c] \in build.loaded
                    ELSE step \in PluginStepSet
       /\ build.handler <=> build.err = <<>>
       /\ build.handler =>
            /\ build.client # <<>>
            /\ [k \in 1..Len(build.steps) |-> build.steps[k].name] = build.cfg.Steps

C24_Witness ==
  /\ Built /\ build.handler
  /\ "Publisher" \notin build.cfg.Plugins /\ "Publisher" \notin build.loaded
  /\ build.cfg.Steps = <<"sign", "custom">>

C24_WitnessMissing ==
  /\ Built /\ ~build.handler
  /\ "Signer" \notin build.cfg.Plugins
  /\ build.cfg.Steps = <<"addRoute", "sign">>

C24_WitnessUnrecognized ==
  /\ Built /\ ~build.handler /\ build.cfg.Steps = <<"other">>

C24_WitnessLoadFailure ==
  /\ Built /\ ~build.handler
  /\ \E k \in 1..Len(build.log) : build.log[k].op = "factory" /\ ~build.log[k].ok

\* C25: a configuration with a step plugin whose id is the name of a built-in
\* step is rejected: the build ends with an error and no handler.
C25_CustomNameCollision ==
  (Built /\ PluginStepSet \cap BuiltInSteps # {}) => ~build.handler

\* The place of a plugin kind in the dependency order: Cache, Registry,
\* KeyManager, then everything else.
Rank(name) == CASE name = "Cache" -> 1 [] name = "Registry" -> 2 [] name = "KeyManager" -> 3 [] OTHER -> 4
\* The positions in the build log of the given operation for the given names.
LogWhere(op, names) ==
  {k \in 1..Len(build.log) : build.log[k].op = op /\ build.log[k].name \in names}

C26_WitnessNoCache ==
  /\ Built /\ "Cache" \notin build.cfg.Plugins /\ "KeyManager" \in build.cfg.Plugins
  /\ build.log # <<>>

C26_WitnessFailure ==
  /\ Built /\ \E k \in LogWhere("factory", {"Registry"}) : ~build.log[k].ok
  /\ "KeyManager" \in build.cfg.Plugins

C26_WitnessNoRegistry ==
  /\ \E k \in LogWhere("factory", {"KeyManager"}) : build.log[k].args = <<"Cache", Nil>>

\* ---------------------------------------------------------------- C31
\* The calls that returned a schema for key k.
Got(k) == {g \in Goroutines : sv.go[g].pc = "returned" /\ sv.go[g].key = k
                               /\ sv.go[g].ret[1].err = NoErr}
\* The successful compiles of key k.
CompilesOf(k) == {i \in 1..Len(sv.compiled) : sv.compiled[i].key = k}
\* The cache and the results, at every moment.
CacheOnce ==
  \A k \in CacheKeys :
    /\ Cardinality(CompilesOf(k)) <= 1
    /\ \A g \in Goroutines :
         sv.go[g].key = k /\ sv.go[g].pc \in {"L317", "compiling"} => CompilesOf(k) = {}
    /\ \A g \in Got(k) :
         /\ sv.go[g].ret[1].schema # NoSchema
         /\ \A i \in CompilesOf(k) : sv.go[g].ret[1].schema = sv.compiled[i].schema
    /\ sv.schemaCache[k] # NoSchema =>
         \E i \in CompilesOf(k) : sv.schemaCache[k] = sv.compiled[i].schema
\* C31: whatever the interleaving of the concurrent calls, a key is compiled
\* successfully at most once and no compile of it starts after that, every
\* call that returns a schema for the key returns that one schema, and an
\* entry of the cache, once stored, is never replaced or removed.
C31_CompileOnce ==
  /\ [](sv.pc = "on" => CacheOnce)
  /\ [][\A k \in CacheKeys : sv.schemaCache[k] # NoSchema => sv.schemaCache'[k] = sv.schemaCache[k]]_vars
\* Two calls missed the same key; one compiled it, the other waited for the
\* compile mutex and found the entry at its second look.
C31_Witness ==
  /\ sv.pc = "on"
  /\ \E g1, g2 \in Goroutines :
       /\ sv.go[g2].pc = "defer" /\ sv.compileMu = g2 /\ sv.go[g2].ret # <<>>
       /\ sv.go[g2].ret[1].err = NoErr
       /\ \E i \in CompilesOf(sv.go[g2].key) :
            sv.compiled[i].by = g1 /\ sv.go[g2].ret[1].schema = sv.compiled[i].schema
       /\ g1 # g2 /\ g1 \in Got(sv.go[g2].key)
\* A call found at its first look the schema another call had compiled.
C31_WitnessFirstLook ==
  /\ sv.pc = "on"
  /\ \E g1, g2 \in Goroutines :
       /\ g1 # g2 /\ sv.go[g2].pc = "L297" /\ g1 \in Got(sv.go[g2].key)
\* A compile failed and a later call compiled the same key.
C31_WitnessRetry ==
  /\ sv.pc = "on"
  /\ \E g1, g2 \in Goroutines :
       /\ sv.go[g1].pc = "returned" /\ sv.go[g1].ret[1].err # NoErr
       /\ sv.go[g1].key \in CacheSchemaFiles
       /\ g2 \in Got(sv.go[g1].key)

\* ---------------------------------------------------------------- C40
\* What goroutine g holds of the cache lock, and the calls under way.
HoldsCacheMu(g) == g \in sv.cacheMu.readers \/ sv.cacheMu.writer = g \/ sv.cacheMu.pending = g
InCall == {g \in Goroutines : sv.go[g].pc \notin {"idle", "returned"}}
InCompiler == {g \in Goroutines : sv.go[g].pc = "compiling"}
\* The locks at every moment.
LockDiscipline ==
  /\ Cardinality(InCompiler) <= 1
  /\ \A g \in Goroutines :
       /\ g \in InCompiler => sv.compileMu = g /\ ~HoldsCacheMu(g)
       /\ sv.go[g].pc = "L307" => ~HoldsCacheMu(g)
       /\ sv.go[g].pc \in {"L311", "L312", "L315", "L322w", "L323", "L324"} => sv.compileMu = g
       /\ sv.go[g].pc \in {"idle", "returned"} => ~HoldsCacheMu(g) /\ sv.compileMu # g
  /\ InCall # {} => \E g \in InCall : ENABLED GetCompiledSchemaStep(g)
\* C40: the compiler is never run by two goroutines at once; a goroutine
\* asks for the compile mutex holding nothing of the cache lock, and holds
\* the compile mutex whenever it takes the cache lock after that; a call that
\* returned holds no lock; while calls are under way one of them can take a
\* step; and with every goroutine scheduled fairly every call returns.
C40_NoDeadlock ==
  /\ [](sv.pc = "on" => LockDiscipline)
  /\ \A g \in Goroutines : (sv.go[g].pc # "idle") ~> (sv.go[g].pc = "returned")
\* A writer has announced itself and waits for a reader to leave.
C40_Witness ==
  /\ sv.pc = "on"
  /\ \E g1, g2 \in Goroutines : sv.go[g1].pc = "L322w" /\ g2 \in sv.cacheMu.readers
\* A reader is kept out while the writer holds the lock.
C40_WitnessReader ==
  /\ sv.pc = "on"
  /\ \E g1, g2 \in Goroutines : sv.go[g1].pc = "L323" /\ sv.go[g2].pc = "L295"
\* A call waits for the compile mutex while another compiles.
C40_WitnessCompileMu ==
  /\ sv.pc = "on"
  /\ \E g1, g2 \in Goroutines : sv.go[g1].pc = "L307" /\ sv.go[g2].pc = "compiling"
\* Every call has returned: a compile error and a schema among the results.
C40_WitnessReturned ==
  /\ sv.pc = "on"
  /\ \A g \in Goroutines : sv.go[g].pc = "returned"
  /\ \E g \in Goroutines : sv.go[g].key \in CacheSchemaFiles /\ sv.go[g].ret[1].err # NoErr
  /\ \E g \in Goroutines : sv.go[g].ret[1].err = NoErr
\* A call for a key that no file gives has returned its error.
C40_WitnessUnknownKey ==
  /\ sv.pc = "on"
  /\ \E g \in Goroutines : sv.go[g].pc = "returned" /\ sv.go[g].key \notin CacheSchemaFiles

\* ---------------------------------------------------------------- C32
\* The calls of the response encoder made so far.
EncoderCalls == {i \in 1..Len(calls) : calls[i].op \in {"SendAck", "SendNack", "SendBody"}}
\* C32: once SendAck, SendNack or SendBody has written the response, its
\* Content-Type is application/json, and after SendAck the status is 200 and
\* the body is the ACK body; the response of an upstream server relayed by
\* the reverse proxy is not the encoder's.
C32_JSONResponses ==
  pc # "off" =>
    /\ EncoderCalls # {} =>
         /\ w.writes = 1 /\ w.Header.ContentType = JSON
         /\ w.body.kind \in {"ACK", "NACK", "json", "message"}
    /\ (\E i \in EncoderCalls : calls[i].op = "SendAck") =>
         w.status = 200 /\ w.body = AckBody
    /\ w.body.kind = "ACK" => w.status = 200
\* An ACK was written for a request whose steps all succeeded.
C32_Witness ==
  /\ pc = "returned" /\ w.body = AckBody /\ w.status = 200 /\ w.Header.ContentType = JSON
  /\ \E i \in EncoderCalls : calls[i].op = "SendAck"
\* A NACK with status 401 was written.
C32_WitnessNack ==
  /\ pc = "returned" /\ w.body.kind = "NACK" /\ w.status = 401 /\ w.Header.ContentType = JSON
\* A custom response body was written.
C32_WitnessBody ==
  /\ pc = "returned" /\ w.body.kind = "message" /\ w.Header.ContentType = JSON
  /\ \E i \in EncoderCalls : calls[i].op = "SendBody"

\* ---------------------------------------------------------------- C33
\* The elements of a sequence.
Elems(q) == {q[i] : i \in 1..Len(q)}
\* The (endpoint, version) pairs two v2 rules of the file share.
SharedV2(rules) ==
  {p \in [endpoint : {"search", "init"}, version : {v \in RuleVersions : IsV2(v)}] :
     \E n, m \in 1..Len(rules) :
       n # m /\ rules[n].version = p.version /\ rules[m].version = p.version
       /\ p.endpoint \in Elems(rules[n].endpoints) \cap Elems(rules[m].endpoints)}
\* A v1 rule without a domain, or two v1 rules sharing (version, domain, endpoint).
V1Fault(rules) ==
  \E n \in 1..Len(rules) :
    /\ ~IsV2(rules[n].version)
    /\ \/ rules[n].domain = <<>>
       \/ \E m \in 1..Len(rules) :
            m # n /\ rules[m].version = rules[n].version /\ rules[m].domain = rules[n].domain
            /\ Elems(rules[m].endpoints) \cap Elems(rules[n].endpoints) # {}
\* C33: a rule set in which two v2 rules share (version, endpoint), whatever
\* their domains, fails to load, with the duplicate-endpoint error naming a
\* shared endpoint and its version unless a fault of a v1 rule ended the load
\* before; and in a loaded index each (v2 version, action) has at most one
\* rule, to which every request of that version and action resolves.
C33_V2Exclusivity ==
  router.pc \in {"loaded", "failed"} =>
    /\ SharedV2(router.rules) # {} =>
         /\ router.pc = "failed"
         /\ \/ \E p \in SharedV2(router.rules) :
                 router.err = DuplicateV2Err(p.endpoint, p.version)
            \/ V1Fault(router.rules)
    /\ router.pc = "loaded" =>
         \A version \in {v \in RuleVersions : IsV2(v)}, action \in {"search", "init"} :
           /\ Cardinality({e \in router.index : e.key.version = version /\ e.key.action = action}) <= 1
           /\ \A d1, d2 \in RuleDomains :
                Resolve(router.index, version, d1, action) = Resolve(router.index, version, d2, action)
\* Two v2 rules of version 2.0.0 with different domains both list search: the
\* load failed and the error names search and 2.0.0.
C33_Witness ==
  /\ router.pc = "failed" /\ Len(router.rules) = 2
  /\ router.rules[1].version = V2 /\ router.rules[2].version = V2
  /\ router.rules[1].domain = <<"X">> /\ router.rules[2].domain = <<"Y">>
  /\ router.err = DuplicateV2Err("search", V2)
\* Rules of two v2 versions list the same endpoint: the index is loaded and a
\* request was resolved to the rule of its version.
C33_WitnessLoaded ==
  /\ router.pc = "loaded" /\ Len(router.rules) = 2
  /\ router.rules[1].version = V2 /\ router.rules[2].version = V21
  /\ router.rules[1].endpoints = router.rules[2].endpoints
  /\ router.route # <<>> /\ router.route[1].version = V21 /\ router.route[1].rules = {2}

\* ---------------------------------------------------------------- C34
\* The step the constructor or the step plugin of a configured name gives.
RawStep(name) == [name |-> name, kind |-> IF name \in BuiltInSteps THEN "builtin" ELSE "custom"]
\* The step names of a list, in order.
Names(steps) == [k \in 1..Len(steps) |-> steps[k].name]
\* The positions of a list at which a step stands as it is, undecorated.
RawAt(steps) == {k \in 1..Len(steps) : steps[k].kind # "instrumented"}
RECURSIVE Pick(_, _)
\* The entries of a sequence at the positions of a set, in order.
Pick(q, at) ==
  IF q = <<>> THEN <<>>
  ELSE Pick(SubSeq(q, 1, Len(q) - 1), at) \o (IF Len(q) \in at THEN <<q[Len(q)]>> ELSE <<>>)
\* C34: the handler of a successful build has one step for each entry of the
\* configured step list, in the list's order: the step of that name inside
\* the instrumentation decorator, or the step itself, and the steps that
\* stand undecorated are those for which a failed decoration was logged; no
\* build fails because of the decorator.
C34_OneStepPerEntry ==
  Built =>
    /\ build.handler =>
         /\ Len(build.steps) = Len(build.cfg.Steps)
         /\ \A k \in 1..Len(build.cfg.Steps) :
              LET name == build.cfg.Steps[k]
              IN build.steps[k] \in {RawStep(name),
                                     [name |-> name, kind |-> "instrumented", step |-> RawStep(name)]}
         /\ Pick(build.cfg.Steps, RawAt(build.steps)) = build.warned
    /\ ~build.handler => build.steps = <<>> /\ build.warned = <<>>
    /\ \A k \in 1..Len(build.err) : build.err[k] # "failed to instrument step"
\* The decorator failed for the first of two steps: the list holds the raw
\* addRoute step and then the instrumented sign step.
C34_Witness ==
  /\ Built /\ build.handler /\ build.warned = <<"addRoute">>
  /\ build.cfg.Steps = <<"addRoute", "sign">>
  /\ build.steps = <<RawStep("addRoute"),
                     [name |-> "sign", kind |-> "instrumented", step |-> RawStep("sign")]>>
\* The decorator failed for both steps, one of them a plugin step.
C34_WitnessAllRaw ==
  /\ Built /\ build.handler
  /\ build.cfg.Steps = <<"custom", "addRoute">>
  /\ build.steps = <<RawStep("custom"), RawStep("addRoute")>>

\* ---------------------------------------------------------------- C35
\* The calls that answer the client: the response encoder or the reverse proxy.
Answers == {i \in 1..Len(calls) : calls[i].op \in {"SendNack", "SendAck", "SendBody", "proxy"}}
\* C35: while ServeHTTP runs nothing has answered the client, and once it
\* has returned exactly one of SendNack, SendAck, SendBody and the reverse
\* proxy has been called, once, whatever the path: a failed body read, a
\* failed step, no route, proxy, publish, unknown target type or async; the
\* hooks that run afterwards add no answer.
C35_ExactlyOneAnswer ==
  /\ pc \in {"idle", "steps"} => Answers = {} /\ w.writes = 0
  /\ pc = "returned" => Cardinality(Answers) = 1 /\ w.writes <= 1
\* The request was proxied to the upstream server and nothing else answered.
C35_Witness ==
  /\ pc = "returned" /\ \E i \in Answers : calls[i].op = "proxy"
\* The body could not be read: one SendNack.
C35_WitnessBodyRead ==
  /\ pc = "returned" /\ \E i \in 1..Len(calls) : calls[i].op = "stepCtx" /\ ~calls[i].ok
  /\ \E i \in Answers : calls[i].op = "SendNack"
\* A publisher route without a Publisher: one SendNack and no Publish.
C35_WitnessNoPublisher ==
  /\ pc = "returned" /\ ctx.Route # <<>> /\ ctx.Route[1].ActAsProxy
  /\ ctx.Route[1].TargetType = "publisher" /\ ~h.publisher
  /\ \E i \in Answers : calls[i].op = "SendNack"
\* An async route: the hook has run after the one SendAck.
C35_WitnessAsync ==
  /\ pc = "returned" /\ ctx.Route # <<>> /\ ~ctx.Route[1].ActAsProxy
  /\ \E i \in Answers : calls[i].op = "SendAck"
  /\ \E i \in 1..Len(calls) : calls[i].op = "hook"

\* ---------------------------------------------------------------- C36
\* C36: whatever error SendNack is given, a WorkbenchErr of any behavior
\* included, it has written a NACK, status and body, when it returns.
C36_AlwaysWrites ==
  enc.stage = "sent" =>
    /\ enc.w1.writes = 1 /\ enc.w1.body.kind = "NACK" /\ enc.w1.status >= 100
    /\ enc.w1.Header.ContentType = JSON

\* ---------------------------------------------------------------- C37
\* ServeHTTP returned for a request whose body was read, whose steps all
\* succeeded and none of whose steps was addRoute.
NoRouteSet ==
  /\ pc = "returned"
  /\ \E k \in Where({"stepCtx"}) : calls[k].ok
  /\ \A k \in Where({"Run"}) : calls[k].ok
  /\ RunsOf("addRoute") = {}
\* C37: a request whose steps all succeeded without setting a Route is
\* answered with the ACK, status 200, also when it carries the
\* custom-response-body cookie; nothing is proxied, posted or published for
\* it, then or later, and ServeHTTP registers no post-response hook (a hook a
\* plugin step registered itself is the plugin's).
C37_NoRouteAck ==
  NoRouteSet =>
    /\ ctx.Route = <<>>
    /\ w.writes = 1 /\ w.status = 200 /\ w.body = AckBody
    /\ Deliveries = {}
    /\ \A k \in Where({"RegisterPostResponseHook"}) : calls[k].i # 0
    /\ \A k \in Where({"hook"}) : calls[k].args # <<"routeHook">>
\* Steps [sign] on a caller module: signed, acknowledged, nothing delivered.
C37_Witness ==
  /\ NoRouteSet /\ h.steps = <<"sign">> /\ w.body = AckBody /\ Deliveries = {}
\* No steps at all, and a request with the custom-response-body cookie and
\* the middleware installed.
C37_WitnessNoSteps ==
  /\ NoRouteSet /\ h.steps = <<>> /\ r.Cookies.custom_response_body.present /\ r.hooks
  /\ w.body = AckBody
\* A plugin step registered its own hook, which ran after the ACK.
C37_WitnessCustomHook ==
  /\ NoRouteSet /\ \E k \in Where({"hook"}) : calls[k].args = <<"customHook">>

\* ---------------------------------------------------------------- C38
\* The hooks registered and kept so far: those waiting and those that ran.
Kept == Len(hooks) + Cardinality(Where({"hook"}))
\* C38: a call of RegisterPostResponseHook adds its hook exactly when the
\* middleware attached a hook list to the request context, and without the
\* list nothing is ever stored or run; so a request routed with
\* ActAsProxy=false on a handler without the middleware gets its ACK (or its
\* custom body) with status 200 and is never delivered: no POST, no Publish.
C38_HookNeedsMiddleware ==
  pc \in {"steps", "returned"} =>
    /\ \A k \in Where({"RegisterPostResponseHook"}) : calls[k].ok = r.hooks
    /\ Kept = IF r.hooks THEN Cardinality(Where({"RegisterPostResponseHook"})) ELSE 0
    /\ (Routed(FALSE, TargetTypes) /\ ~r.hooks) =>
         /\ w.writes = 1 /\ w.status = 200
         /\ \E k \in Where({"RegisterPostResponseHook"}) : calls[k].i = 0 /\ ~calls[k].ok
         /\ hooks = <<>> /\ Deliveries = {}
\* A url route with ActAsProxy=false on a handler without the middleware:
\* the ACK is written, the hook was offered and dropped.
C38_Witness ==
  /\ Routed(FALSE, {"url"}) /\ ~r.hooks /\ w.body = AckBody
  /\ \E k \in Where({"RegisterPostResponseHook"}) : ~calls[k].ok
  /\ hooks = <<>> /\ Deliveries = {}
\* The same route with the middleware: the hook was kept and has delivered.
C38_WitnessKept ==
  /\ Routed(FALSE, {"url"}) /\ r.hooks /\ hooks = <<>>
  /\ \E d \in Deliveries : calls[d].op = "httpClient.Do"

\* What a served call leaves behind for its client and its targets: the
\* response written, and the history of what it sent where.
Outcome(q) == [w |-> q.w, calls |-> q.calls, r |-> q.r]

\* Each call in flight is where it would be, after some number of steps, had
\* it been served alone.
AsAlone ==
  \A i \in ReqIDs : \E n \in 0..ServeSteps(par.h) : par.q[i] = Alone(par.h, par.q[i].in, n)

C39_WitnessServed ==
  /\ par.pc = "on"
  /\ \A i \in ReqIDs : Served(par.q[i])
  /\ \E k \in 1..Len(par.q[1].calls) : par.q[1].calls[k].op = "proxy"
  /\ \E k \in 1..Len(par.q[2].calls) : par.q[2].calls[k].op = "Publish"

\* One call is served while the other has not been entered.
C39_WitnessOneIdle ==
  par.pc = "on" /\ Served(par.q[2]) /\ par.q[2].ctx.Route # <<>> /\ par.q[1].pc = "idle"

====
